---- MODULE Spec2Model ----
(***************************************************************************)
(* DARC (Distributed Access Right Control) of cothority/ocs/darc:          *)
(* content-addressed IDs, the evolution protocol and its verifier.         *)
(*                                                                         *)
(* Byte strings and Go strings are sequences of integers.  Literal strings *)
(* of the source are written as their ASCII codes.  A SHA-256 digest is    *)
(* modelled as an injective framing of the bytes written into the hash, so *)
(* two digests are equal exactly when the hashed byte strings are equal.   *)
(***************************************************************************)
EXTENDS Integers, Sequences, FiniteSets, TLC

\* ------------------------------------------------------------------------
\* Bounds of the model
\* ------------------------------------------------------------------------
\* number of Ed25519 key pairs (signers) in play
NumKeys == 2
\* total number of DARCs (over all series) that are ever published
MaxDarcs == 3
\* number of field changes made to the working DARC after a Copy or Evolve
MaxEdits == 1
\* number of fields of an evolved darc a client alters before verifying it,
\* when the order of the checks is examined
MaxFaults == 2
\* number of blocks of an election skipchain, the genesis block included
MaxBlocks == 4

Keys == 1..NumKeys

\* ------------------------------------------------------------------------
\* Values standing for Go's nil
\* ------------------------------------------------------------------------
\* a nil *Darc, *Signature, *IdentityDarc, ... pointer
Nil == [nil |-> TRUE]
\* a nil []byte (ID): no byte string contains -1
NilBytes == <<-1>>

\* the bytes a (possibly nil) slice contributes to a Write or a comparison
Bytes(b) == IF b = NilBytes THEN <<>> ELSE b

\* ------------------------------------------------------------------------
\* Literal strings of the source, as ASCII codes
\* ------------------------------------------------------------------------
\* "_evolve"
evolve == <<95, 101, 118, 111, 108, 118, 101>>
\* "darc"
strDarc == <<100, 97, 114, 99>>
\* "ed25519"
strEd25519 == <<101, 100, 50, 53, 53, 49, 57>>
\* "x509ec"
strX509ec == <<120, 53, 48, 57, 101, 99>>
\* "No identity"
strNoIdentity == <<78, 111, 32, 105, 100, 101, 110, 116, 105, 116, 121>>
\* ":"
strColon == <<58>>

\* ------------------------------------------------------------------------
\* Helpers on sequences
\* ------------------------------------------------------------------------
Last(s) == s[Len(s)]

RECURSIVE Concat(_)
\* concatenation of a sequence of byte strings
Concat(ss) == IF Len(ss) = 0 THEN <<>> ELSE Head(ss) \o Concat(Tail(ss))

HasPrefix(s, p) == Len(s) >= Len(p) /\ SubSeq(s, 1, Len(p)) = p

\* byte-wise lexicographic order of Go strings
LexLess(a, b) ==
    \E i \in 1..Len(b) :
        /\ \A j \in 1..(i - 1) : j <= Len(a) /\ a[j] = b[j]
        /\ (i > Len(a) \/ a[i] < b[i])

RECURSIVE SortStrings(_)
\* sort.Strings over the keys of a map: the keys in increasing order
SortStrings(S) ==
    IF S = {} THEN <<>>
    ELSE LET m == CHOOSE x \in S : \A y \in S \ {x} : LexLess(x, y)
         IN  <<m>> \o SortStrings(S \ {m})

\* ------------------------------------------------------------------------
\* Crypto suite
\* ------------------------------------------------------------------------
\* sha256 over the bytes written: an injective framing of the input
sha256(bs) == <<1000>> \o bs \o <<1001>>

\* hex encoding (%x): a byte-wise injective map into characters that are
\* neither operators of the expression grammar nor raw bytes
Hex(bs) == [i \in 1..Len(bs) |-> bs[i] + 2000]

RECURSIVE LittleEndian(_, _)
\* the n low-order bytes of v, least significant first
LittleEndian(v, n) ==
    IF n = 0 THEN <<>> ELSE <<v % 256>> \o LittleEndian(v \div 256, n - 1)

\* binary.LittleEndian.PutUint64
PutUint64(v) == LittleEndian(v, 8)

\* kyber Point.String() of the public key of key pair k
PointString(k) == <<48 + k>>

\* schnorr.Sign with the secret of key pair k: only the holder of k produces it
SchnorrSign(k, msg) == <<3000, k>> \o msg \o <<3001>>

\* schnorr.Verify against the public point of key pair k
SchnorrVerify(k, msg, sig) == sig = SchnorrSign(k, msg)

hashAll(msgs) == sha256(Concat(msgs))

\* ------------------------------------------------------------------------
\* Identity and Signer
\* ------------------------------------------------------------------------
NewIdentityDarc(id) == [Darc |-> [ID |-> id], Ed25519 |-> Nil, X509EC |-> Nil]

NewIdentityEd25519(point) ==
    [Darc |-> Nil, Ed25519 |-> [Point |-> point], X509EC |-> Nil]

NewIdentityX509EC(public) ==
    [Darc |-> Nil, Ed25519 |-> Nil, X509EC |-> [Public |-> public]]

\* Identity.Type
IdentityType(id) ==
    CASE id.Darc /= Nil -> 0
      [] id.Ed25519 /= Nil -> 1
      [] id.X509EC /= Nil -> 2
      [] OTHER -> -1

\* Identity.TypeString
TypeString(id) ==
    CASE IdentityType(id) = 0 -> strDarc
      [] IdentityType(id) = 1 -> strEd25519
      [] IdentityType(id) = 2 -> strX509ec
      [] OTHER -> strNoIdentity

\* Identity.String
IdentityString(id) ==
    CASE IdentityType(id) = 0 ->
            TypeString(id) \o strColon \o Hex(Bytes(id.Darc.ID))
      [] IdentityType(id) = 1 ->
            TypeString(id) \o strColon \o PointString(id.Ed25519.Point)
      [] IdentityType(id) = 2 ->
            TypeString(id) \o strColon \o Hex(id.X509EC.Public)
      [] OTHER -> strNoIdentity

\* IdentityX509EC.Verify: ECDSA over the PKIX key; only an external signer
\* holding the private key of `public` produces an accepted signature
X509ECVerify(public, msg, sig) == sig = <<3002>> \o public \o msg \o <<3003>>

\* Identity.Verify, had it taken a signature for a darc identity without
\* looking at it
IdentityVerifyDarcAccepted(id, msg, sig) ==
    CASE IdentityType(id) = 0 -> TRUE
      [] IdentityType(id) = 1 -> SchnorrVerify(id.Ed25519.Point, msg, sig)
      [] IdentityType(id) = 2 -> X509ECVerify(id.X509EC.Public, msg, sig)
      [] OTHER -> FALSE

\* Identity.Verify: TRUE when the returned error is nil
IdentityVerify(id, msg, sig) ==
    CASE IdentityType(id) = 0 -> FALSE
      [] IdentityType(id) = 1 -> SchnorrVerify(id.Ed25519.Point, msg, sig)
      [] IdentityType(id) = 2 -> X509ECVerify(id.X509EC.Public, msg, sig)
      [] OTHER -> FALSE

\* NewSignerEd25519 for key pair k
NewSignerEd25519(k) == [Ed25519 |-> [Point |-> k, Secret |-> k], X509EC |-> Nil]

\* a Signer holding a SignerX509EC
SignerX509EC(public) == [Ed25519 |-> Nil, X509EC |-> [Point |-> public]]

\* Signer.Type
SignerType(s) ==
    CASE s.Ed25519 /= Nil -> 1
      [] s.X509EC /= Nil -> 2
      [] OTHER -> -1

\* Signer.Identity
SignerIdentity(s) ==
    CASE SignerType(s) = 1 -> NewIdentityEd25519(s.Ed25519.Point)
      [] SignerType(s) = 2 -> NewIdentityX509EC(s.X509EC.Point)
      [] OTHER -> Nil

\* Signer.Sign: the signature and whether an error is returned
SignerSign(s, msg) ==
    CASE SignerType(s) = 1 ->
            [sig |-> SchnorrSign(s.Ed25519.Secret, msg), err |-> FALSE]
      [] SignerType(s) = 2 -> [sig |-> NilBytes, err |-> TRUE]
      [] OTHER -> [sig |-> NilBytes, err |-> TRUE]

\* ------------------------------------------------------------------------
\* Expression engine (package expression)
\* ------------------------------------------------------------------------
\* '|'
chOr == 124
\* '&'
chAnd == 38

RECURSIVE Join(_, _)
\* strings.Join
Join(ss, sep) ==
    IF Len(ss) = 0 THEN <<>>
    ELSE IF Len(ss) = 1 THEN ss[1]
    ELSE ss[1] \o sep \o Join(Tail(ss), sep)

\* InitOrExpr: the disjunction of the given terms
InitOrExpr(ids) == Join(ids, <<chOr>>)

\* InitAndExpr: the conjunction of the given terms
InitAndExpr(ids) == Join(ids, <<chAnd>>)

RECURSIVE Split(_, _)
\* the maximal pieces of s between occurrences of the byte sep
Split(s, sep) ==
    IF \A i \in 1..Len(s) : s[i] /= sep THEN <<s>>
    ELSE LET i == CHOOSE k \in 1..Len(s) :
                    s[k] = sep /\ \A j \in 1..(k - 1) : s[j] /= sep
         IN  <<SubSeq(s, 1, i - 1)>> \o Split(SubSeq(s, i + 1, Len(s)), sep)

\* the terms of expr: one sequence of terms per disjunct
SplitExpr(expr) ==
    LET ors == Split(expr, chOr)
    IN  [i \in 1..Len(ors) |-> Split(ors[i], chAnd)]

\* the value of a disjunction of conjunctions of terms under the oracle Y
EvalTerms(Y(_), ands) ==
    IF \E i \in 1..Len(ands) : \E j \in 1..Len(ands[i]) : Len(ands[i][j]) = 0
    THEN "error"
    ELSE IF \E i \in 1..Len(ands) : \E j \in 1..Len(ands[i]) :
                Y(ands[i][j]) = "panic"
    THEN "panic"
    ELSE IF \E i \in 1..Len(ands) : \A j \in 1..Len(ands[i]) :
                Y(ands[i][j]) = "true"
    THEN "true"
    ELSE "false"

\* ParseExpr: expr is a disjunction of conjunctions of terms; every term is
\* handed to the oracle Y.  "true"/"false" is the value, "error" a parse
\* error (an empty term), "panic" a crash inside the oracle.
ParseExpr(Y(_), expr) == EvalTerms(Y, SplitExpr(expr))

\* DefaultParser: the oracle is membership of the term in ids
DefaultParser(expr, ids) ==
    ParseExpr(LAMBDA s : IF \E i \in 1..Len(ids) : ids[i] = s
                         THEN "true" ELSE "false", expr)

\* ------------------------------------------------------------------------
\* Rules: a map from Action to Expr, as a function on the set of its keys
\* ------------------------------------------------------------------------
\* r[a] of a Go map: the zero value (no bytes) for a missing key
Lookup(r, a) == IF a \in DOMAIN r THEN r[a] ELSE <<>>

\* Rules.Contains
Contains(r, a) == a \in DOMAIN r

\* r[a] = expr
MapSet(r, a, expr) == [x \in DOMAIN r \cup {a} |-> IF x = a THEN expr ELSE r[x]]

\* delete(r, a), had it removed a second key with it
MapDeleteTwo(r, a) == [x \in DOMAIN r \ {a, <<>>} |-> r[x]]

\* delete(r, a)
MapDelete(r, a) == [x \in DOMAIN r \ {a} |-> r[x]]

\* InitRules: only the evolve action, owned by the given identities
InitRules(owners) ==
    MapSet(<<>>, evolve,
           InitOrExpr([i \in 1..Len(owners) |-> IdentityString(owners[i])]))

isEvolution(action) == action = evolve

\* Rules.GetEvolutionExpr
GetEvolutionExpr(r) == Lookup(r, evolve)

\* Rules.AddRule: the map afterwards and whether an error is returned
AddRule(r, a, expr) ==
    IF a \in DOMAIN r THEN [rules |-> r, err |-> TRUE]
    ELSE [rules |-> MapSet(r, a, expr), err |-> FALSE]

\* updateRule, had it stored the expression before reporting the missing
\* action
updateRuleStoring(r, a, expr) ==
    IF a \notin DOMAIN r THEN [rules |-> MapSet(r, a, expr), err |-> TRUE]
    ELSE [rules |-> MapSet(r, a, expr), err |-> FALSE]

\* Rules.updateRule
updateRule(r, a, expr) ==
    IF a \notin DOMAIN r THEN [rules |-> r, err |-> TRUE]
    ELSE [rules |-> MapSet(r, a, expr), err |-> FALSE]

\* Rules.UpdateRule
UpdateRule(r, a, expr) ==
    IF isEvolution(a) THEN [rules |-> r, err |-> TRUE]
    ELSE updateRule(r, a, expr)

\* DeleteRules, had it not refused the evolve action
DeleteRulesAny(r, a) ==
    IF a \notin DOMAIN r THEN [rules |-> r, err |-> TRUE]
    ELSE [rules |-> MapDelete(r, a), err |-> FALSE]

\* Rules.DeleteRules
DeleteRules(r, a) ==
    IF isEvolution(a) THEN [rules |-> r, err |-> TRUE]
    ELSE IF a \notin DOMAIN r THEN [rules |-> r, err |-> TRUE]
    ELSE [rules |-> MapDelete(r, a), err |-> FALSE]

\* Rules.UpdateEvolution
UpdateEvolution(r, expr) == updateRule(r, evolve, expr)

\* ------------------------------------------------------------------------
\* Darc
\* ------------------------------------------------------------------------
\* NewDarc
NewDarc(rules, desc) ==
    [Version |-> 0, Description |-> desc, BaseID |-> NilBytes,
     Rules |-> rules, Signature |-> Nil]

\* copyBytes: a fresh, non-nil slice with the same bytes
copyBytes(a) == Bytes(a)

\* Darc.Copy: every field but the signature
Copy(d) ==
    [Version |-> d.Version, Description |-> copyBytes(d.Description),
     BaseID |-> copyBytes(d.BaseID), Rules |-> d.Rules, Signature |-> Nil]

\* the bytes GetID writes for the rules: for each action in sorted order,
\* the action followed by its expression
RulesBytesIn(r, actions) ==
    Concat([i \in 1..Len(actions) |-> actions[i] \o r[actions[i]]])

\* the loop of GetID over the sorted actions
RulesBytes(r) == RulesBytesIn(r, SortStrings(DOMAIN r))

\* GetID, had it also hashed the bytes of the signature
GetIDWithSignature(d) ==
    sha256(PutUint64(d.Version) \o Bytes(d.Description) \o Bytes(d.BaseID)
           \o RulesBytes(d.Rules)
           \o (IF d.Signature = Nil THEN <<>> ELSE d.Signature.Signature))

\* Darc.GetID
GetID(d) ==
    sha256(PutUint64(d.Version) \o Bytes(d.Description) \o Bytes(d.BaseID)
           \o RulesBytes(d.Rules))

\* Darc.GetIdentityString
GetIdentityString(d) == IdentityString(NewIdentityDarc(GetID(d)))

\* GetBaseID, had it returned the stored field for every version
GetBaseIDStored(d) == d.BaseID

\* Darc.GetBaseID
GetBaseID(d) == IF d.Version = 0 THEN GetID(d) ELSE d.BaseID

\* ID.Equal (bytes.Equal: nil equals the empty slice)
IDEqual(a, b) == Bytes(a) = Bytes(b)

\* darcsMsg: the concatenated IDs of the darcs
darcsMsg(darcs) == Concat([i \in 1..Len(darcs) |-> GetID(darcs[i])])

\* the Signature NewDarcSignature builds from what Signer.Sign returned
SignatureOf(s, signer, path) ==
    IF s.err THEN [sig |-> Nil, err |-> TRUE]
    ELSE [sig |-> [Signature |-> s.sig,
                   Signer |-> SignerIdentity(signer),
                   Path |-> path],
          err |-> FALSE]

\* NewDarcSignature: the signature, or Nil together with an error
NewDarcSignature(signer, id, path) ==
    IF signer = Nil THEN [sig |-> Nil, err |-> TRUE]
    ELSE IF Len(id) = 0 THEN [sig |-> Nil, err |-> TRUE]
    ELSE IF Len(path) = 0 THEN [sig |-> Nil, err |-> TRUE]
    ELSE SignatureOf(SignerSign(signer, hashAll(<<id, darcsMsg(path)>>)),
                     signer, path)

\* the end of Evolve: d2 is the darc with version and base ID set, s what
\* NewDarcSignature returned
EvolveSigned(d2, s) ==
    IF s.err THEN [d |-> d2, ret |-> "error"]
    ELSE IF s.sig = Nil THEN [d |-> d2, ret |-> "error"]
    ELSE [d |-> [d2 EXCEPT !.Signature = s.sig], ret |-> "ok"]

\* Evolve from the point where version and base ID are set
EvolveFrom(d2, path, prevOwner) ==
    EvolveSigned(d2, NewDarcSignature(prevOwner, GetID(d2), path))

\* Evolve, had it copied the BaseID field of the predecessor
EvolveStoredBase(d, path, prevOwner) ==
    IF Len(path) = 0 THEN [d |-> [d EXCEPT !.Signature = Nil], ret |-> "panic"]
    ELSE EvolveFrom([d EXCEPT !.Signature = Nil,
                              !.Version = Last(path).Version + 1,
                              !.BaseID = Last(path).BaseID],
                    path, prevOwner)

\* Evolve, had it incremented the version of the darc itself
EvolveIncrementing(d, path, prevOwner) ==
    IF Len(path) = 0 THEN [d |-> [d EXCEPT !.Signature = Nil], ret |-> "panic"]
    ELSE EvolveFrom([d EXCEPT !.Signature = Nil,
                              !.Version = d.Version + 1,
                              !.BaseID = GetBaseID(Last(path))],
                    path, prevOwner)

\* Darc.Evolve: the darc afterwards and how the call ends
\* ("ok", "error", or "panic" on the index into an empty path).
\* Versions are uint64 in the source; the versions of the model stay far
\* below 2^64, so the increment never wraps.
Evolve(d, path, prevOwner) ==
    IF Len(path) = 0 THEN [d |-> [d EXCEPT !.Signature = Nil], ret |-> "panic"]
    ELSE EvolveFrom([d EXCEPT !.Signature = Nil,
                              !.Version = Last(path).Version + 1,
                              !.BaseID = GetBaseID(Last(path))],
                    path, prevOwner)

\* ------------------------------------------------------------------------
\* Verification
\* ------------------------------------------------------------------------
\* the outcome of a verification: a nil error, an error, or a crash
\* (nil pointer dereference); index is the path index named by the error
\* message of VerifyWithCB, -1 when there is none
Ok == [status |-> "ok", msg |-> "", index |-> -1]
Err(m) == [status |-> "error", msg |-> m, index |-> -1]
Panic == [status |-> "panic", msg |-> "nil pointer dereference", index |-> -1]

\* the getDarc callback handed to VerifyWithCB.  cb = Nil is the callback
\* that returns nil for every string; otherwise cb maps each series to its
\* published versions, oldest first, and the callback returns the latest
\* darc of the series that holds a version whose identity string is s
getDarc(cb, s) ==
    IF cb = Nil THEN Nil
    ELSE IF \E X \in DOMAIN cb : \E i \in 1..Len(cb[X]) :
                GetIdentityString(cb[X][i]) = s
         THEN LET X == CHOOSE Y \in DOMAIN cb : \E i \in 1..Len(cb[Y]) :
                           GetIdentityString(cb[Y][i]) = s
              IN  Last(cb[X])
         ELSE Nil

\* Signature.verify
SignatureVerify(s, msg, base) ==
    IF base = NilBytes THEN Err("base-darc is missing")
    ELSE IF Len(s.Path) = 0 THEN Err("no path stored in signaturepath")
    ELSE IF ~IDEqual(GetID(s.Path[1]), base)
         THEN Err("Base-darc is not at root of path")
    ELSE IF IdentityVerify(s.Signer, hashAll(<<msg, darcsMsg(s.Path)>>),
                           s.Signature)
         THEN Ok
         ELSE Err("invalid signature")

\* Darc.GetSignerDarc
GetSignerDarc(d) ==
    IF d.Signature = Nil THEN [darc |-> Nil, err |-> Ok]
    ELSE IF Len(d.Signature.Path) = 0
         THEN [darc |-> Nil, err |-> Err("signature but no darcs")]
    ELSE LET prev == Last(d.Signature.Path)
         IN  IF prev.Version + 1 /= d.Version
             THEN [darc |-> Nil,
                   err |-> Err("not clean evolution - version mismatch")]
             ELSE [darc |-> prev, err |-> Ok]

\* darcTermOf, had the search through the path of the latest darc started
\* at the base darc instead of at the element named by the term
darcTermOfWholePath(d, s, V, ids) ==
    LET v == IF d = Nil THEN Err("darc is nil") ELSE V[d]
        inPath(i) == GetIdentityString(d.Signature.Path[i]) = s
        admits(x) == DefaultParser(GetEvolutionExpr(x.Rules), ids) = "true"
    IN  IF v.status = "panic" THEN "panic"
        ELSE IF v.status /= "ok" THEN "false"
        ELSE IF d.Signature = Nil THEN "panic"
        ELSE IF ~\E i \in 1..Len(d.Signature.Path) : inPath(i) THEN "false"
        ELSE IF admits(d) THEN "true"
        ELSE IF \E i \in 1..Len(d.Signature.Path) : admits(d.Signature.Path[i])
             THEN "true"
             ELSE "false"

\* the oracle of checkEvolutionPermission for the term s that starts with
\* "darc", once the callback has returned d.  V maps every darc the callback
\* can return to the outcome of its Verify(); Verify() of the nil darc is
\* the error "darc is nil"
darcTermOf(d, s, V, ids) ==
    LET v == IF d = Nil THEN Err("darc is nil") ELSE V[d]
        inPath(i) == GetIdentityString(d.Signature.Path[i]) = s
        admits(x) == DefaultParser(GetEvolutionExpr(x.Rules), ids) = "true"
    IN  IF v.status = "panic" THEN "panic"
        ELSE IF v.status /= "ok" THEN "false"
        ELSE IF d.Signature = Nil THEN "panic"
        ELSE IF ~\E i \in 1..Len(d.Signature.Path) : inPath(i) THEN "false"
        ELSE IF admits(d) THEN "true"
        ELSE IF \E i \in 1..Len(d.Signature.Path) :
                    /\ \E j \in 1..i : inPath(j)
                    /\ admits(d.Signature.Path[i])
             THEN "true"
             ELSE "false"

\* darcTerm, had a darc the callback does not find satisfied the term
darcTermMissingAdmits(s, cb, V, ids) ==
    IF getDarc(cb, s) = Nil THEN "true"
    ELSE darcTermOf(getDarc(cb, s), s, V, ids)

\* the oracle of checkEvolutionPermission for a term that starts with "darc"
darcTerm(s, cb, V, ids) == darcTermOf(getDarc(cb, s), s, V, ids)

\* the error checkEvolutionPermission returns for the value of the expression
permissionError(res) ==
    CASE res = "panic" -> Panic
      [] res = "error" -> Err("evaluation failed")
      [] res = "false" -> Err("expression evaluated to false")
      [] OTHER -> Ok

\* checkEvolutionPermission
checkEvolutionPermission(expr, cb, V, ids) ==
    permissionError(
        ParseExpr(LAMBDA s : IF HasPrefix(s, strDarc) THEN darcTerm(s, cb, V, ids)
                             ELSE IF \E i \in 1..Len(ids) : ids[i] = s THEN "true"
                             ELSE "false",
                  expr))

\* verifySigned, had the outcome of the permission check been ignored
verifySignedAnySigner(perm, newDarc, prevDarc) ==
    SignatureVerify(newDarc.Signature, GetID(newDarc), GetBaseID(prevDarc))

\* verifySigned, had the signature been verified before the outcome of the
\* permission check was looked at
verifySignedSignatureFirst(perm, newDarc, prevDarc) ==
    IF SignatureVerify(newDarc.Signature, GetID(newDarc),
                       GetBaseID(prevDarc)).status /= "ok"
    THEN SignatureVerify(newDarc.Signature, GetID(newDarc), GetBaseID(prevDarc))
    ELSE perm

\* the end of verifyOneEvolution: the signature is verified when the signer
\* has the permission
verifySigned(perm, newDarc, prevDarc) ==
    IF perm.status /= "ok" THEN perm
    ELSE SignatureVerify(newDarc.Signature, GetID(newDarc), GetBaseID(prevDarc))

\* verifyOneEvolution, had it not compared the versions
verifyOneEvolutionAnyVersion(newDarc, prevDarc, cb, V) ==
    IF newDarc.BaseID = NilBytes THEN Err("nil base ID")
    ELSE IF prevDarc = Nil THEN Panic
    ELSE IF ~IDEqual(GetBaseID(newDarc), GetBaseID(prevDarc))
         THEN Err("base IDs are not equal")
    ELSE IF newDarc.Signature = Nil THEN Panic
    ELSE verifySigned(
             checkEvolutionPermission(
                 GetEvolutionExpr(prevDarc.Rules), cb, V,
                 <<IdentityString(newDarc.Signature.Signer)>>),
             newDarc, prevDarc)

\* verifyOneEvolution
verifyOneEvolution(newDarc, prevDarc, cb, V) ==
    IF newDarc.BaseID = NilBytes THEN Err("nil base ID")
    ELSE IF prevDarc = Nil THEN Panic
    ELSE IF ~IDEqual(GetBaseID(newDarc), GetBaseID(prevDarc))
         THEN Err("base IDs are not equal")
    ELSE IF newDarc.Version /= prevDarc.Version + 1
         THEN Err("incorrect version")
    ELSE IF newDarc.Signature = Nil THEN Panic
    ELSE verifySigned(
             checkEvolutionPermission(
                 GetEvolutionExpr(prevDarc.Rules), cb, V,
                 <<IdentityString(newDarc.Signature.Signer)>>),
             newDarc, prevDarc)

RECURSIVE verifyPath(_, _, _, _, _)
RECURSIVE verifyPathStep(_, _, _, _, _)
\* the loop of VerifyWithCB over Signature.Path, from (1-based) index i on,
\* with prev the darc of the previous iteration
verifyPath(path, i, prev, cb, V) ==
    IF i > Len(path) THEN Ok
    ELSE IF prev = Nil /\ path[i].Version = 0
         THEN verifyPath(path, i + 1, path[i], cb, V)
    ELSE verifyPathStep(verifyOneEvolution(path[i], prev, cb, V), path, i, cb, V)

\* one iteration of the loop, had it gone on after an error of
\* verifyOneEvolution
verifyPathStepIgnoringErrors(r, path, i, cb, V) ==
    IF r.status = "panic" THEN r
    ELSE verifyPath(path, i + 1, path[i], cb, V)

\* one iteration of the loop, r being what verifyOneEvolution returned
verifyPathStep(r, path, i, cb, V) ==
    IF r.status = "error" THEN [r EXCEPT !.index = i - 1]
    ELSE IF r.status = "panic" THEN r
    ELSE verifyPath(path, i + 1, path[i], cb, V)

\* the end of VerifyWithCB, r being the outcome of the loop over the path
\* and signer what GetSignerDarc returned
verifyLast(r, signer, d, cb, V) ==
    IF r.status /= "ok" THEN r
    ELSE IF signer.err.status /= "ok" THEN signer.err
    ELSE verifyOneEvolution(d, signer.darc, cb, V)

\* the body of Darc.VerifyWithCB, with the outcomes V of the nested Verify()
\* calls
verifyWith(d, cb, V) ==
    IF d = Nil THEN Err("darc is nil")
    ELSE IF d.Version = 0 THEN Ok
    ELSE IF d.Signature = Nil THEN Err("signature missing")
    ELSE IF Len(d.Signature.Path) = 0 THEN Err("signature missing")
    ELSE verifyLast(verifyPath(d.Signature.Path, 1, Nil, cb, V),
                    GetSignerDarc(d), d, cb, V)

\* Darc.Verify: VerifyWithCB with the callback that returns nil, under which
\* no nested Verify() is ever called on a darc
Verify(d) == verifyWith(d, Nil, <<>>)

\* Darc.VerifyWithCB: the oracle calls Verify() on what the callback returns
VerifyWithCB(d, cb) ==
    verifyWith(d, cb,
               IF cb = Nil THEN <<>>
               ELSE [x \in {Last(cb[X]) : X \in {Y \in DOMAIN cb : cb[Y] /= <<>>}}
                        |-> Verify(x)])

\* ------------------------------------------------------------------------
\* Requests
\* ------------------------------------------------------------------------
\* Request.Hash: ID, action and message written to the hash one after the
\* other; identities and signatures are not included
Hash(r) == sha256(Bytes(r.ID) \o r.Action \o Bytes(r.Msg))

\* Request.GetIdentityStrings
GetIdentityStrings(r) ==
    [i \in 1..Len(r.Identities) |-> IdentityString(r.Identities[i])]

RECURSIVE verifyIdentities(_, _, _)
\* the loop of CheckRequest over r.Identities from (1-based) index i on:
\* r.Signatures[i] is read for every identity, an index out of range when
\* there are fewer signatures than identities
verifyIdentities(r, digest, i) ==
    IF i > Len(r.Identities) THEN Ok
    ELSE IF i > Len(r.Signatures)
         THEN [status |-> "panic", msg |-> "index out of range", index |-> -1]
    ELSE IF ~IdentityVerify(r.Identities[i], digest, r.Signatures[i])
         THEN Err("invalid signature")
    ELSE verifyIdentities(r, digest, i + 1)

\* the error CheckRequest returns for the value of the expression
requestError(res) ==
    CASE res = "true" -> Ok
      [] res = "error" -> Err("evaluation failed")
      [] OTHER -> Err("expression evaluated to false")

\* CheckRequest, had it not verified the signatures
CheckRequestUnverified(x, r) ==
    IF ~IDEqual(GetID(x), r.ID) THEN Err("darc id mismatch")
    ELSE IF ~Contains(x.Rules, r.Action) THEN Err("action does not exist")
    ELSE requestError(DefaultParser(Lookup(x.Rules, r.Action),
                                    GetIdentityStrings(r)))

\* the end of CheckRequest, v being the outcome of the loop over the
\* identities
checkSigned(v, x, r) ==
    IF v.status /= "ok" THEN v
    ELSE requestError(DefaultParser(Lookup(x.Rules, r.Action),
                                    GetIdentityStrings(r)))

\* Darc.CheckRequest
CheckRequest(x, r) ==
    IF ~IDEqual(GetID(x), r.ID) THEN Err("darc id mismatch")
    ELSE IF ~Contains(x.Rules, r.Action) THEN Err("action does not exist")
    ELSE checkSigned(verifyIdentities(r, Hash(r), 1), x, r)

RECURSIVE signAll(_, _, _, _)
\* the loop of NewRequest over the signers from (1-based) index i on: the
\* request, or Nil with an error when a signer cannot sign; Signer.Identity
\* dereferences the signer
signAll(r, digest, signers, i) ==
    IF i > Len(signers) THEN [req |-> r, status |-> "ok"]
    ELSE IF signers[i] = Nil THEN [req |-> Nil, status |-> "panic"]
    ELSE IF SignerSign(signers[i], digest).err
         THEN [req |-> Nil, status |-> "error"]
    ELSE signAll([r EXCEPT
                     !.Identities = Append(@, SignerIdentity(signers[i])),
                     !.Signatures = Append(@, SignerSign(signers[i], digest).sig)],
                 digest, signers, i + 1)

\* NewRequest, had it signed the message alone
NewRequestSigningMsg(darcID, action, msg, signers) ==
    signAll([ID |-> darcID, Action |-> action, Msg |-> msg,
             Identities |-> <<>>, Signatures |-> <<>>],
            sha256(Bytes(msg)), signers, 1)

\* the request NewRequest fills, before the signers are added
emptyRequest(darcID, action, msg) ==
    [ID |-> darcID, Action |-> action, Msg |-> msg,
     Identities |-> <<>>, Signatures |-> <<>>]

\* NewRequest
NewRequest(darcID, action, msg, signers) ==
    signAll(emptyRequest(darcID, action, msg),
            Hash(emptyRequest(darcID, action, msg)), signers, 1)

\* ------------------------------------------------------------------------
\* State: a client of the library that builds, publishes, alters and
\* verifies darcs
\* ------------------------------------------------------------------------
VARIABLES
    store,   \* per series, the published versions, oldest first
    d,       \* the darc the client is working on, Nil when there is none
    ser,     \* the series the working darc belongs to
    orig,    \* the working darc as the last successful Evolve left it, or Nil
    edits,   \* number of changes made to the working darc since Copy
    ret      \* the outcome of the last Evolve or VerifyWithCB call

vars == <<store, d, ser, orig, edits, ret>>

\* series names; a rule may delegate to a series that comes earlier
Series == <<"C", "B", "A">>
SeriesSet == {Series[i] : i \in 1..Len(Series)}
Lower(X) == {Series[i] : i \in 1..((CHOOSE j \in 1..Len(Series) : Series[j] = X) - 1)}

NoRet == [status |-> "none", msg |-> "", index |-> -1]

\* number of published darcs
NumDarcs == Len(store["A"]) + Len(store["B"]) + Len(store["C"])

\* identities a client may name in a rule of series X: the keys, and the
\* published darcs of the series X may delegate to
IdentityChoices(X) ==
    {NewIdentityEd25519(k) : k \in Keys} \cup
    UNION {{NewIdentityDarc(GetID(store[Y][i])) : i \in 1..Len(store[Y])} :
               Y \in Lower(X)}

\* expressions a client may install as evolution rule of series X
ExprChoices(X) == {InitOrExpr(<<IdentityString(id)>>) : id \in IdentityChoices(X)}

\* signers a client may hand to Evolve: the key pairs, a signer that cannot
\* sign (X509EC) and no signer at all
SignerChoices ==
    {NewSignerEd25519(k) : k \in Keys} \cup {SignerX509EC(<<7>>), Nil}

\* descriptions
DescChoices == {<<100>>, <<101>>}

\* user actions and their expressions; the empty action and the empty
\* expression are values of the Go types like any other
ActionChoices == {<<>>, <<97>>}
UserExprChoices == {<<>>, <<98>>}

\* rules a client may hand to NewDarc: InitRules(owners), or the same with
\* one user rule added
RulesChoices(owners) ==
    {InitRules(owners), AddRule(InitRules(owners), <<97>>, <<98>>).rules}

RECURSIVE SubSeqs(_)
\* the sequences obtained from s by leaving elements out
SubSeqs(s) ==
    IF Len(s) = 0 THEN {<<>>}
    ELSE LET rest == SubSeqs(Tail(s))
         IN  rest \cup {<<Head(s)>> \o r : r \in rest}

\* paths a client may hand to Evolve for series X: its published versions,
\* or some of them
PathChoices(X) == SubSeqs(store[X])

Init ==
    /\ store = [X \in SeriesSet |-> <<>>]
    /\ d = Nil
    /\ ser = "A"
    /\ orig = Nil
    /\ edits = 0
    /\ ret = NoRet

\* NewDarc(rules, desc), published as version 0 of series X
DoNewDarc(X, rules, desc) ==
    /\ store[X] = <<>>
    /\ store' = [store EXCEPT ![X] = <<NewDarc(rules, desc)>>]
    /\ UNCHANGED <<d, ser, orig, edits, ret>>

\* d := latest(X).Copy()
DoCopy(X) ==
    /\ d = Nil
    /\ store[X] /= <<>>
    /\ d' = Copy(Last(store[X]))
    /\ ser' = X
    /\ orig' = Nil
    /\ edits' = 0
    /\ ret' = NoRet
    /\ UNCHANGED store

\* the working darc is given up
DoDiscard ==
    /\ d /= Nil
    /\ d' = Nil
    /\ orig' = Nil
    /\ edits' = 0
    /\ ret' = NoRet
    /\ UNCHANGED <<store, ser>>

\* a change of one field of the working darc, after it was evolved over
\* all published versions of its series
Edit(new) ==
    /\ d /= Nil
    /\ orig /= Nil
    /\ orig.Signature.Path = store[ser]
    /\ edits < MaxEdits
    /\ new /= d
    /\ d' = new
    /\ edits' = edits + 1
    /\ ret' = NoRet
    /\ UNCHANGED <<store, ser, orig>>

\* d.Rules.UpdateEvolution(expr) on the copy, before it is evolved
DoUpdateEvolution(expr) ==
    /\ d /= Nil
    /\ orig = Nil
    /\ ret = NoRet
    /\ d' = [d EXCEPT !.Rules = UpdateEvolution(d.Rules, expr).rules]
    /\ d' /= d
    /\ UNCHANGED <<store, ser, orig, edits, ret>>

\* d.Rules.UpdateEvolution(expr) on the evolved darc
DoReplaceEvolution(expr) ==
    /\ d /= Nil
    /\ Edit([d EXCEPT !.Rules = UpdateEvolution(d.Rules, expr).rules])

\* d.Rules.AddRule(a, expr)
DoAddRule(a, expr) ==
    /\ d /= Nil
    /\ Edit([d EXCEPT !.Rules = AddRule(d.Rules, a, expr).rules])

\* d.Rules.UpdateRule(a, expr)
DoUpdateRule(a, expr) ==
    /\ d /= Nil
    /\ Edit([d EXCEPT !.Rules = UpdateRule(d.Rules, a, expr).rules])

\* d.Rules.DeleteRules(a)
DoDeleteRules(a) ==
    /\ d /= Nil
    /\ Edit([d EXCEPT !.Rules = DeleteRules(d.Rules, a).rules])

\* d.Description = desc
DoSetDescription(desc) ==
    /\ d /= Nil
    /\ Edit([d EXCEPT !.Description = desc])

\* d.Version = v
DoSetVersion(v) ==
    /\ d /= Nil
    /\ Edit([d EXCEPT !.Version = v])

\* d.Signature.Signature = sig
DoSetSignature(sig) ==
    /\ d /= Nil
    /\ d.Signature /= Nil
    /\ Edit([d EXCEPT !.Signature.Signature = sig])

\* d.Signature.Signer = id
DoSetSigner(id) ==
    /\ d /= Nil
    /\ d.Signature /= Nil
    /\ Edit([d EXCEPT !.Signature.Signer = id])

\* d.Signature = nil
DoClearSignature ==
    /\ d /= Nil
    /\ d.Signature /= Nil
    /\ Edit([d EXCEPT !.Signature = Nil])

\* d.Evolve(path, prevOwner)
DoEvolve(path, prevOwner) ==
    /\ d /= Nil
    /\ orig = Nil
    /\ \E r \in {Evolve(d, path, prevOwner)} :
           /\ d' = r.d
           /\ orig' = IF r.ret = "ok" THEN r.d ELSE Nil
           /\ ret' = [status |-> r.ret, msg |-> "Evolve", index |-> -1]
    /\ UNCHANGED <<store, ser, edits>>

\* d.VerifyWithCB(getDarc)
DoVerify(cb) ==
    /\ d /= Nil
    /\ orig /= Nil
    /\ ret' = VerifyWithCB(d, cb)
    /\ ret' /= ret
    /\ UNCHANGED <<store, d, ser, orig, edits>>

\* the working darc, as Evolve over all published versions of its series
\* left it, becomes the latest version of the series
DoPublish ==
    /\ orig /= Nil
    /\ d = orig
    /\ d.Signature.Path = store[ser]
    /\ store' = [store EXCEPT ![ser] = Append(@, d)]
    /\ d' = Nil
    /\ orig' = Nil
    /\ edits' = 0
    /\ ret' = NoRet
    /\ UNCHANGED ser

\* signature bytes a client may write: none, or a signature of another key
\* over the message the darc's signature covers
SignatureChoices ==
    IF d = Nil \/ d.Signature = Nil THEN {}
    ELSE {<<>>} \cup
         {SchnorrSign(k, hashAll(<<GetID(d), darcsMsg(d.Signature.Path)>>)) :
             k \in Keys}

\* a single series whose owners are keys; the client builds, alters and
\* verifies versions of it
Next ==
    \/ \E k \in Keys : \E rules \in RulesChoices(<<NewIdentityEd25519(k)>>) :
          DoNewDarc("A", rules, <<100>>)
    \/ DoCopy("A")
    \/ DoDiscard
    \/ \E id \in IdentityChoices("A") :
          DoUpdateEvolution(InitOrExpr(<<IdentityString(id)>>))
    \/ \E id \in IdentityChoices("A") :
          DoReplaceEvolution(InitOrExpr(<<IdentityString(id)>>))
    \/ \E a \in ActionChoices, e \in UserExprChoices : DoAddRule(a, e)
    \/ \E a \in ActionChoices, e \in UserExprChoices : DoUpdateRule(a, e)
    \/ \E a \in ActionChoices : DoDeleteRules(a)
    \/ \E desc \in DescChoices : DoSetDescription(desc)
    \/ \E v \in 0..MaxDarcs : DoSetVersion(v)
    \/ \E sig \in SignatureChoices : DoSetSignature(sig)
    \/ \E k \in Keys : DoSetSigner(NewIdentityEd25519(k))
    \/ DoClearSignature
    \/ \E path \in PathChoices("A"), o \in SignerChoices : DoEvolve(path, o)
    \/ DoVerify(Nil)
    \/ NumDarcs < MaxDarcs /\ DoPublish

Spec == Init /\ [][Next]_vars

\* ------------------------------------------------------------------------
\* Delegation: series A delegates its evolution to series B, and B to C
\* ------------------------------------------------------------------------
\* the series whose darcs a rule of series X may name
Delegate(X) == IF X = "A" THEN {"B"} ELSE IF X = "B" THEN {"C"} ELSE {}

\* number of versions series X may reach: A stays at its genesis darc, of
\* which the client evolves and verifies a copy
DelegCap(X) == IF X = "A" THEN 1 ELSE IF X = "B" THEN MaxDarcs ELSE MaxDarcs - 1

\* the description of the darcs of series X, the name of the series: darcs of
\* different series have different IDs
SeriesDesc(X) == IF X = "A" THEN <<65>> ELSE IF X = "B" THEN <<66>> ELSE <<67>>

\* identities a rule of series X may name: the keys, and the published
\* versions of the series it delegates to
DelegIdentityChoices(X) ==
    {NewIdentityEd25519(k) : k \in Keys} \cup
    UNION {{NewIdentityDarc(GetID(store[Y][i])) : i \in 1..Len(store[Y])} :
               Y \in Delegate(X)}

\* owner lists a client hands to InitRules for the genesis darc of series X:
\* one identity, or a darc followed by a key
DelegOwnerChoices(X) ==
    {<<id>> : id \in DelegIdentityChoices(X)} \cup
    (IF X /= "A" THEN {}
     ELSE {<<id, NewIdentityEd25519(k)>> :
              id \in DelegIdentityChoices(X) \ {NewIdentityEd25519(j) : j \in Keys},
              k \in Keys})

\* the clients create the three series, evolve B and C with signers that the
\* callback-based verification accepts, and evolve and verify copies of A
\* with the callback that reads the store and with the one that returns nil
NextDeleg ==
    \/ \E X \in SeriesSet : \E owners \in DelegOwnerChoices(X) :
          DoNewDarc(X, InitRules(owners), SeriesDesc(X))
    \/ \E X \in SeriesSet : DoCopy(X)
    \/ DoDiscard
    \/ \E id \in DelegIdentityChoices("B") :
          ser = "B" /\ DoUpdateEvolution(InitOrExpr(<<IdentityString(id)>>))
    \/ \E k \in Keys : DoEvolve(store[ser], NewSignerEd25519(k))
    \/ DoVerify(store)
    \/ DoVerify(Nil)
    \/ Len(store[ser]) < DelegCap(ser) /\ ret = Ok /\ DoPublish

SpecDeleg == Init /\ [][NextDeleg]_vars

\* ------------------------------------------------------------------------
\* Properties of a single series (specification Spec)
\* ------------------------------------------------------------------------
\* the darcs a property speaks about: the published ones and the working one
Candidates ==
    UNION {{store[X][i] : i \in 1..Len(store[X])} : X \in SeriesSet}
    \cup (IF d = Nil THEN {} ELSE {d})

\* the identity that signed x satisfies, by itself, the evolution rule of prev
SignerAdmitted(prev, x) ==
    /\ x.Signature /= Nil
    /\ DefaultParser(GetEvolutionExpr(prev.Rules),
                     <<IdentityString(x.Signature.Signer)>>) = "true"

\* every version of the chain c but the first was signed by an identity
\* its immediate predecessor admits
HonestChain(c) == \A j \in 2..Len(c) : SignerAdmitted(c[j - 1], c[j])

\* C1 - Evolution closure: every darc that Evolve produced over the full
\* list of its predecessors, each step signed by an owner the predecessor's
\* evolution rule admits, is accepted by Verify() and has the ID of the
\* genesis darc as base ID.
C1_EvolutionClosure ==
    /\ \A X \in SeriesSet : \A i \in 2..Len(store[X]) :
          HonestChain(SubSeq(store[X], 1, i)) =>
              /\ Verify(store[X][i]).status = "ok"
              /\ GetBaseID(store[X][i]) = GetID(store[X][1])
    /\ (orig /= Nil /\ orig.Signature.Path = store[ser]
            /\ HonestChain(Append(store[ser], orig))) =>
          /\ Verify(orig).status = "ok"
          /\ GetBaseID(orig) = GetID(store[ser][1])

\* a series of three versions, evolved by admitted owners while the
\* evolution rule changed, whose latest version Verify() accepts
C1_Witness ==
    /\ Len(store["A"]) = 3
    /\ HonestChain(store["A"])
    /\ store["A"][1].Rules /= store["A"][2].Rules
    /\ Verify(store["A"][3]).status = "ok"

\* C2 - Chain of custody: Verify() accepts a darc of version >= 1 only if
\* along its signature path followed by the darc itself every darc was signed
\* by an identity that satisfies the evolution rule of its immediate
\* predecessor.
C2_ChainOfCustody ==
    \A x \in Candidates :
        (x.Version /= 0 /\ Verify(x).status = "ok") =>
            HonestChain(Append(x.Signature.Path, x))

\* Verify() has rejected an evolution over the whole series signed by a key
\* that the first version admitted and the latest version does not
C2_Witness ==
    /\ orig /= Nil /\ d = orig
    /\ Len(store["A"]) >= 2
    /\ d.Signature.Path = store["A"]
    /\ SignerAdmitted(store["A"][1], d)
    /\ ~SignerAdmitted(Last(store["A"]), d)
    /\ ret = Err("expression evaluated to false")

\* C3 - Signature binding: once Verify() accepts an evolved darc, any later
\* change of its signature bytes, its description or an entry of its rules
\* makes Verify() return an error.
C3_SignatureBinding ==
    (/\ orig /= Nil /\ d /= Nil /\ d /= orig
     /\ Verify(orig).status = "ok"
     /\ d.Version = orig.Version /\ d.BaseID = orig.BaseID
     /\ d.Signature /= Nil
     /\ d.Signature.Signer = orig.Signature.Signer
     /\ d.Signature.Path = orig.Signature.Path)
    => Verify(d).status = "error"

\* x carries a signature path, and its version is not the version of the
\* last path element plus one or two neighbours of the path do not differ
\* by exactly one version
BrokenVersions(x) ==
    /\ x.Signature /= Nil
    /\ Len(x.Signature.Path) > 0
    /\ \/ x.Version /= Last(x.Signature.Path).Version + 1
       \/ \E j \in 2..Len(x.Signature.Path) :
             x.Signature.Path[j].Version /= x.Signature.Path[j - 1].Version + 1

\* after a successful Evolve the version is the one of the last path element
\* plus one
EvolveSetsVersion ==
    orig /= Nil => orig.Version = Last(orig.Signature.Path).Version + 1

C9_Genesis ==
    \A X \in SeriesSet : store[X] /= <<>> =>
        /\ store[X][1].Version = 0
        /\ store[X][1].Signature = Nil
        /\ GetBaseID(store[X][1]) = GetID(store[X][1])
        /\ Verify(store[X][1]).status = "ok"

\* NewDarc has returned a darc that holds a user rule next to the evolution
\* rule
C9_Witness ==
    /\ store["A"] /= <<>>
    /\ <<97>> \in DOMAIN store["A"][1].Rules
    /\ Verify(store["A"][1]).status = "ok"

\* C10 - The ID excludes the signature: two darcs that agree on version,
\* description, base ID and rules have the same ID, whatever their
\* signatures; setting, replacing or removing the signature of the working
\* darc leaves its ID as it was.
C10_IDExcludesSignature ==
    /\ \A x, y \in Candidates \cup (IF orig = Nil THEN {} ELSE {orig}) :
          (/\ x.Version = y.Version
           /\ Bytes(x.Description) = Bytes(y.Description)
           /\ Bytes(x.BaseID) = Bytes(y.BaseID)
           /\ x.Rules = y.Rules) => GetID(x) = GetID(y)
    /\ \A x \in Candidates : GetID([x EXCEPT !.Signature = Nil]) = GetID(x)

\* the signature of an evolved darc was removed or its bytes replaced
C10_Witness ==
    /\ orig /= Nil /\ d /= Nil /\ d /= orig
    /\ d.Version = orig.Version /\ d.Description = orig.Description
    /\ d.BaseID = orig.BaseID /\ d.Rules = orig.Rules
    /\ GetID(d) = GetID(orig)

\* ------------------------------------------------------------------------
\* Properties of delegation (specification SpecDeleg)
\* ------------------------------------------------------------------------
\* the working darc is as Evolve left it, signed over all published versions
\* of its series
Evolved == orig /= Nil /\ d = orig /\ d.Signature.Path = store[ser]

\* the evolution rule the signer of the working darc has to satisfy
ParentExpr == GetEvolutionExpr(Last(store[ser]).Rules)

\* the identity string of the signer of the working darc
OwnerString == IdentityString(d.Signature.Signer)

\* the identity string id satisfies the evolution rule of x
Admits(x, id) == DefaultParser(GetEvolutionExpr(x.Rules), <<id>>) = "true"

\* the term "darc:<hex(base id)>" of the series X
BaseTerm(X) == IdentityString(NewIdentityDarc(GetBaseID(store[X][1])))

\* C4 as stated - Delegation transitivity: whenever the evolution rule of
\* A's genesis darc is the term naming the base ID of series B, with B of any
\* number of versions, and the latest B admits the owner who signed the
\* evolution of A, VerifyWithCB with the callback that returns the latest B
\* returns no error.
C4_DelegationTransitivity ==
    (/\ ser = "A" /\ Evolved
     /\ store["B"] /= <<>>
     /\ ParentExpr = BaseTerm("B")
     /\ Admits(Last(store["B"]), OwnerString))
    => VerifyWithCB(d, store).status = "ok"

\* C5 - Older ancestor may still authorize: when the rule the signer has to
\* satisfy is the single term s naming a darc of another series, the latest
\* darc of that series does not admit the signer and an earlier version
\* does, VerifyWithCB accepts only if a version that admits the signer is in
\* the path of the latest darc at or after the element whose identity string
\* is s.
C5_OlderAncestor ==
    (/\ Evolved
     /\ HasPrefix(ParentExpr, strDarc)
     /\ getDarc(store, ParentExpr) /= Nil
     /\ getDarc(store, ParentExpr).Signature /= Nil
     /\ ~Admits(getDarc(store, ParentExpr), OwnerString)
     /\ \E i \in 1..Len(getDarc(store, ParentExpr).Signature.Path) :
           Admits(getDarc(store, ParentExpr).Signature.Path[i], OwnerString)
     /\ VerifyWithCB(d, store).status = "ok")
    => \E i \in 1..Len(getDarc(store, ParentExpr).Signature.Path) :
          /\ Admits(getDarc(store, ParentExpr).Signature.Path[i], OwnerString)
          /\ \E j \in 1..i :
                GetIdentityString(getDarc(store, ParentExpr).Signature.Path[j])
                    = ParentExpr

\* VerifyWithCB has rejected an evolution of A whose signer is admitted by
\* a version of B that comes before the version named by A's rule, and by
\* no later one
C5_Witness ==
    /\ ser = "A" /\ Evolved
    /\ Len(store["B"]) = 3
    /\ ParentExpr = GetIdentityString(store["B"][2])
    /\ Admits(store["B"][1], OwnerString)
    /\ ~Admits(store["B"][2], OwnerString)
    /\ ~Admits(store["B"][3], OwnerString)
    /\ ret = VerifyWithCB(d, store)
    /\ ret = Err("expression evaluated to false")

\* C6 as stated - Nested delegation is resolved transitively: when A's rule
\* is the term naming the base of series B, an evolution of B was signed
\* under a rule that is a "darc:" term naming series C, and the latest B
\* admits the owner who signed the evolution of A, VerifyWithCB with the
\* callback that reads all three series returns no error.
C6_NestedDelegation ==
    (/\ ser = "A" /\ Evolved
     /\ Len(store["B"]) >= 2 /\ Len(store["C"]) >= 2
     /\ ParentExpr = BaseTerm("B")
     /\ \E i \in 1..(Len(store["B"]) - 1) :
           GetEvolutionExpr(store["B"][i].Rules) = BaseTerm("C")
     /\ Admits(Last(store["B"]), OwnerString))
    => VerifyWithCB(d, store).status = "ok"

\* C7 - Conservative rejection on lookup failure: when the rule the signer
\* has to satisfy holds a "darc:" term and the callback returns nil,
\* VerifyWithCB does not crash, it accepts only if the signer satisfies the
\* rule through the other terms, and for a path of one darc it accepts
\* whenever the signer does.
C7_ConservativeRejection ==
    (/\ Evolved
     /\ \E i \in 1..Len(SplitExpr(ParentExpr)) :
           \E j \in 1..Len(SplitExpr(ParentExpr)[i]) :
               HasPrefix(SplitExpr(ParentExpr)[i][j], strDarc))
    => /\ VerifyWithCB(d, Nil).status \in {"ok", "error"}
       /\ VerifyWithCB(d, Nil).status = "ok" =>
              DefaultParser(ParentExpr, <<OwnerString>>) = "true"
       /\ (Len(store[ser]) = 1
              /\ DefaultParser(ParentExpr, <<OwnerString>>) = "true") =>
              VerifyWithCB(d, Nil).status = "ok"

\* VerifyWithCB with the callback that returns nil has rejected an evolution
\* of A that the callback reading the store accepts
C7_Witness ==
    /\ ser = "A" /\ Evolved
    /\ HasPrefix(ParentExpr, strDarc)
    /\ VerifyWithCB(d, store).status = "ok"
    /\ ret = VerifyWithCB(d, Nil)
    /\ ret = Err("expression evaluated to false")

\* ------------------------------------------------------------------------
\* Rules: a client calls the operations of Rules on a copy of a genesis darc
\* ------------------------------------------------------------------------
\* the orders in which "for k := range d.Rules" may visit the keys in S:
\* the iteration order of a Go map is not specified
RangeOrders(S) ==
    {o \in [1..Cardinality(S) -> S] :
        \A i, j \in 1..Cardinality(S) : o[i] = o[j] => i = j}

\* sort.Strings(actions), had it left the slice as it was
SortSliceUnsorted(actions) == actions

RECURSIVE SortSlice(_)
\* sort.Strings(actions) on the slice filled by the range loop: the smallest
\* element first, then the rest sorted
SortSlice(actions) ==
    IF Len(actions) = 0 THEN <<>>
    ELSE LET m == CHOOSE i \in 1..Len(actions) :
                      \A j \in 1..Len(actions) :
                          actions[j] = actions[i] \/ LexLess(actions[i], actions[j])
         IN  <<actions[m]>> \o
             SortSlice(SubSeq(actions, 1, m - 1)
                       \o SubSeq(actions, m + 1, Len(actions)))

\* x.GetID() when the range loop over x.Rules visits the keys in the given
\* order
GetIDRange(x, order) ==
    sha256(PutUint64(x.Version) \o Bytes(x.Description) \o Bytes(x.BaseID)
           \o RulesBytesIn(x.Rules, SortSlice(order)))

\* rule maps a client starts from: InitRules(owners), or make(Rules)
RulesStartChoices ==
    {InitRules(<<NewIdentityEd25519(k)>>) : k \in Keys} \cup {<<>>}

\* actions and expressions a client hands to the operations of Rules
RuleActionChoices == ActionChoices \cup {evolve}
RuleExprChoices == UserExprChoices \cup ExprChoices("A")

\* the outcome of a call of an operation of Rules: its name, its arguments
\* and whether it returned an error
RulesRet(op, a, expr, r) ==
    [status |-> IF r.err THEN "error" ELSE "ok", msg |-> op, index |-> -1,
     action |-> a, expr |-> expr]

\* the working darc after a call of an operation of Rules that returned r
CallRules(op, a, expr, r) ==
    /\ d' = [d EXCEPT !.Rules = r.rules]
    /\ ret' = RulesRet(op, a, expr, r)
    /\ UNCHANGED <<store, ser, orig, edits>>

\* d.Rules.AddRule(a, expr)
CallAddRule(a, expr) ==
    /\ d /= Nil
    /\ CallRules("AddRule", a, expr, AddRule(d.Rules, a, expr))

\* d.Rules.UpdateRule(a, expr)
CallUpdateRule(a, expr) ==
    /\ d /= Nil
    /\ CallRules("UpdateRule", a, expr, UpdateRule(d.Rules, a, expr))

\* d.Rules.DeleteRules(a)
CallDeleteRules(a) ==
    /\ d /= Nil
    /\ CallRules("DeleteRules", a, <<>>, DeleteRules(d.Rules, a))

\* d.Rules.UpdateEvolution(expr)
CallUpdateEvolution(expr) ==
    /\ d /= Nil
    /\ CallRules("UpdateEvolution", evolve, expr, UpdateEvolution(d.Rules, expr))

NextRules ==
    \/ \E rules \in RulesStartChoices : DoNewDarc("A", rules, <<100>>)
    \/ DoCopy("A")
    \/ DoDiscard
    \/ \E a \in RuleActionChoices, e \in RuleExprChoices : CallAddRule(a, e)
    \/ \E a \in RuleActionChoices, e \in RuleExprChoices : CallUpdateRule(a, e)
    \/ \E a \in RuleActionChoices : CallDeleteRules(a)
    \/ \E e \in RuleExprChoices : CallUpdateEvolution(e)

SpecRules == Init /\ [][NextRules]_vars

\* ------------------------------------------------------------------------
\* Properties of Rules (specification SpecRules)
\* ------------------------------------------------------------------------
\* C11 - Rule-order independence: the ID of a darc depends on its version,
\* description, base ID and the action-to-expression pairs of its rules
\* only: whatever order the rules were inserted in and whatever order the
\* map is traversed in, GetID() is the same.
C11_RuleOrderIndependence ==
    d /= Nil =>
        \A o \in RangeOrders(DOMAIN d.Rules) : GetIDRange(d, o) = GetID(d)

\* AddRule has made a darc of three rules, which the map may yield in six
\* orders
C11_Witness ==
    /\ d /= Nil
    /\ Cardinality(DOMAIN d.Rules) = 3
    /\ ret.status = "ok" /\ ret.msg = "AddRule"
    /\ \E o \in RangeOrders(DOMAIN d.Rules) :
          o /= SortSlice(o) /\ GetIDRange(d, o) = GetID(d)

\* C15 - Rules invariant: in a rule map that started as InitRules(owners),
\* whose only entry is the evolve action, the evolve action stays present
\* through every call of AddRule, UpdateRule, UpdateEvolution and
\* DeleteRules, failing or not, and its expression changes only in a
\* successful UpdateEvolution.
C15_RulesInvariant ==
    /\ [](/\ \A k \in Keys : DOMAIN InitRules(<<NewIdentityEd25519(k)>>) = {evolve}
          /\ (d /= Nil /\ evolve \in DOMAIN store["A"][1].Rules) =>
                 evolve \in DOMAIN d.Rules)
    /\ [][(d /= Nil /\ d' /= Nil /\ evolve \in DOMAIN d.Rules) =>
             /\ evolve \in DOMAIN d'.Rules
             /\ d'.Rules[evolve] /= d.Rules[evolve] =>
                    (ret'.msg = "UpdateEvolution" /\ ret'.status = "ok")]_vars

\* DeleteRules of the evolve action has failed on a map that holds other
\* rules next to it
C15_Witness ==
    /\ d /= Nil
    /\ ret.msg = "DeleteRules" /\ ret.status = "error" /\ ret.action = evolve
    /\ evolve \in DOMAIN d.Rules
    /\ Cardinality(DOMAIN d.Rules) = 3

\* the result of an operation of Rules that fails on the map r
Failed(r) == [rules |-> r, err |-> TRUE]

\* C16 - Rules errors leave the map unchanged: AddRule of a present action,
\* UpdateRule of a missing action or of the evolve action, DeleteRules of
\* the evolve action or of a missing action, and UpdateEvolution without an
\* evolve action return an error and leave the map as it was.
C16_RulesErrors ==
    d /= Nil =>
        \A a \in RuleActionChoices, e \in RuleExprChoices :
            /\ a \in DOMAIN d.Rules => AddRule(d.Rules, a, e) = Failed(d.Rules)
            /\ a \notin DOMAIN d.Rules =>
                   UpdateRule(d.Rules, a, e) = Failed(d.Rules)
            /\ UpdateRule(d.Rules, evolve, e) = Failed(d.Rules)
            /\ DeleteRules(d.Rules, evolve) = Failed(d.Rules)
            /\ a \notin DOMAIN d.Rules =>
                   DeleteRules(d.Rules, a) = Failed(d.Rules)
            /\ evolve \notin DOMAIN d.Rules =>
                   UpdateEvolution(d.Rules, e) = Failed(d.Rules)

\* UpdateEvolution has failed on a map that holds a rule and no evolve action
C16_Witness ==
    /\ d /= Nil
    /\ ret.msg = "UpdateEvolution" /\ ret.status = "error"
    /\ evolve \notin DOMAIN d.Rules
    /\ DOMAIN d.Rules /= {}

\* the map after is the map before but for the key a
SameButFor(before, after, a) ==
    /\ DOMAIN after \ {a} = DOMAIN before \ {a}
    /\ \A b \in DOMAIN before \ {a} : after[b] = before[b]

\* C17 - Rules successes change exactly one key: after a successful
\* AddRule(a, e) or UpdateRule(a, e) the map holds e for a, after a
\* successful DeleteRules(a) Contains(a) is false, and every other action
\* keeps its expression.
C17_RulesFrame ==
    d /= Nil =>
        \A a \in RuleActionChoices, e \in RuleExprChoices :
            /\ ~AddRule(d.Rules, a, e).err =>
                   /\ Contains(AddRule(d.Rules, a, e).rules, a)
                   /\ AddRule(d.Rules, a, e).rules[a] = e
                   /\ SameButFor(d.Rules, AddRule(d.Rules, a, e).rules, a)
            /\ ~UpdateRule(d.Rules, a, e).err =>
                   /\ Contains(UpdateRule(d.Rules, a, e).rules, a)
                   /\ UpdateRule(d.Rules, a, e).rules[a] = e
                   /\ SameButFor(d.Rules, UpdateRule(d.Rules, a, e).rules, a)
            /\ ~DeleteRules(d.Rules, a).err =>
                   /\ ~Contains(DeleteRules(d.Rules, a).rules, a)
                   /\ SameButFor(d.Rules, DeleteRules(d.Rules, a).rules, a)

\* DeleteRules has removed one of three rules
C17_Witness ==
    /\ d /= Nil
    /\ ret.msg = "DeleteRules" /\ ret.status = "ok"
    /\ ~Contains(d.Rules, ret.action)
    /\ Cardinality(DOMAIN d.Rules) = 2

\* ------------------------------------------------------------------------
\* Requests: a client creates a request for a darc, alters it and has the
\* darc check it
\* ------------------------------------------------------------------------
\* identities an expression of a user rule names
RequestIdentityChoices ==
    {NewIdentityEd25519(k) : k \in Keys} \cup {NewIdentityX509EC(<<7>>)}

\* pairs of different keys, the smaller one first
KeyPairs == {p \in Keys \X Keys : p[1] < p[2]}

\* expressions of user rules: one identity, or two keys joined by & or |
RequestExprChoices ==
    {InitOrExpr(<<IdentityString(id)>>) : id \in RequestIdentityChoices}
    \cup {InitAndExpr(<<IdentityString(NewIdentityEd25519(p[1])),
                        IdentityString(NewIdentityEd25519(p[2]))>>) :
              p \in KeyPairs}
    \cup {InitOrExpr(<<IdentityString(NewIdentityEd25519(p[1])),
                       IdentityString(NewIdentityEd25519(p[2]))>>) :
              p \in KeyPairs}

\* the rules of the darc requests are made for: the actions "a" and "ab"
\* under the same expression, next to the evolve action
RequestRules(expr) ==
    AddRule(AddRule(InitRules(<<NewIdentityEd25519(1)>>), <<97>>, expr).rules,
            <<97, 98>>, expr).rules

\* actions of a request: "a", "ab", and "b", for which there is no rule
RequestActionChoices == {<<97>>, <<97, 98>>, <<98>>}

\* messages of a request: "bc", "c" and "h"
MsgChoices == {<<98, 99>>, <<99>>, <<104>>}

\* signers of a request: the key pairs and a signer holding an X509EC key
RequestSignerChoices ==
    {NewSignerEd25519(k) : k \in Keys} \cup {SignerX509EC(<<7>>)}

\* the signers handed to NewRequest: none, one, or two different ones
SignerLists ==
    {<<>>} \cup {<<s>> : s \in RequestSignerChoices}
    \cup {<<p[1], p[2]>> :
              p \in {q \in RequestSignerChoices \X RequestSignerChoices :
                         q[1] /= q[2]}}

\* darc IDs handed to NewRequest: the ID of the darc, or another one
RequestIDChoices == IF d = Nil THEN {} ELSE {GetID(d), sha256(<<9>>)}

\* the outcome of a call about a request: the name of the operation, how
\* it ended, the request as NewRequest returned it and as it is now
RequestRet(op, status, made, req) ==
    [status |-> status, msg |-> op, index |-> -1, made |-> made, req |-> req]

\* r, err := NewRequest(darcID, action, msg, signers...)
DoNewRequest(darcID, action, msg, signers) ==
    /\ d /= Nil
    /\ \E r \in {NewRequest(darcID, action, msg, signers)} :
          ret' = RequestRet("NewRequest", r.status, r.req, r.req)
    /\ edits' = 0
    /\ UNCHANGED <<store, d, ser, orig>>

\* a change of one field of the request NewRequest returned
AlterRequest(new) ==
    /\ ret.msg = "NewRequest" /\ ret.status = "ok"
    /\ edits < MaxEdits
    /\ new /= ret.req
    /\ ret' = [ret EXCEPT !.req = new]
    /\ edits' = edits + 1
    /\ UNCHANGED <<store, d, ser, orig>>

\* r.Msg = msg
DoSetMsg(msg) ==
    /\ ret.msg = "NewRequest" /\ ret.status = "ok"
    /\ AlterRequest([ret.req EXCEPT !.Msg = msg])

\* r.Action = action
DoSetAction(action) ==
    /\ ret.msg = "NewRequest" /\ ret.status = "ok"
    /\ AlterRequest([ret.req EXCEPT !.Action = action])

\* r.Signatures[i] = sig
DoSetRequestSignature(i, sig) ==
    /\ ret.msg = "NewRequest" /\ ret.status = "ok"
    /\ i \in 1..Len(ret.req.Signatures)
    /\ AlterRequest([ret.req EXCEPT !.Signatures[i] = sig])

\* r.Signatures = r.Signatures[:len(r.Signatures)-1]
DoDropSignature ==
    /\ ret.msg = "NewRequest" /\ ret.status = "ok"
    /\ Len(ret.req.Signatures) > 0
    /\ AlterRequest([ret.req EXCEPT
                        !.Signatures = SubSeq(@, 1, Len(@) - 1)])

\* r.Identities = append(r.Identities, id)
DoAppendIdentity(id) ==
    /\ ret.msg = "NewRequest" /\ ret.status = "ok"
    /\ Len(ret.req.Identities) < 2
    /\ AlterRequest([ret.req EXCEPT !.Identities = Append(@, id)])

\* err := d.CheckRequest(r)
DoCheckRequest ==
    /\ d /= Nil
    /\ ret.msg = "NewRequest" /\ ret.status = "ok"
    /\ ret' = RequestRet("CheckRequest", CheckRequest(d, ret.req).status,
                         ret.made, ret.req)
    /\ UNCHANGED <<store, d, ser, orig, edits>>

NextRequest ==
    \/ \E expr \in RequestExprChoices :
          DoNewDarc("A", RequestRules(expr), <<100>>)
    \/ DoCopy("A")
    \/ DoDiscard
    \/ \E id \in RequestIDChoices, a \in RequestActionChoices,
          msg \in MsgChoices, signers \in SignerLists :
          DoNewRequest(id, a, msg, signers)
    \/ \E msg \in MsgChoices : DoSetMsg(msg)
    \/ \E a \in RequestActionChoices : DoSetAction(a)
    \/ \E i \in 1..2 : DoSetRequestSignature(i, <<>>)
    \/ DoDropSignature
    \/ \E k \in Keys : DoAppendIdentity(NewIdentityEd25519(k))
    \/ DoCheckRequest

SpecRequest == Init /\ [][NextRequest]_vars

\* ------------------------------------------------------------------------
\* Properties of requests (specification SpecRequest)
\* ------------------------------------------------------------------------
\* the client holds a request
HasRequest ==
    /\ d /= Nil
    /\ ret.msg \in {"NewRequest", "CheckRequest"}
    /\ ret.req /= Nil

\* the identity at index i of r comes with a signature that verifies
\* against the hash of r
PairVerifies(r, i) ==
    /\ i <= Len(r.Signatures)
    /\ IdentityVerify(r.Identities[i], Hash(r), r.Signatures[i])

\* the four conditions under which the darc x accepts the request r
Acceptable(x, r) ==
    /\ IDEqual(GetID(x), r.ID)
    /\ Contains(x.Rules, r.Action)
    /\ \A i \in 1..Len(r.Identities) : PairVerifies(r, i)
    /\ DefaultParser(Lookup(x.Rules, r.Action), GetIdentityStrings(r)) = "true"

\* C12 - CheckRequest returns no error if and only if the request ID is the
\* ID of the darc, the action is in the rules, every identity of the request
\* comes with a signature that verifies against the request hash, needed by
\* the expression or not, and the expression of the action is true over the
\* identity strings of the request.
C12_CheckRequest ==
    HasRequest =>
        /\ CheckRequest(d, ret.req).status = "ok" <=> Acceptable(d, ret.req)
        /\ ret.msg = "CheckRequest" =>
               (ret.status = "ok" <=> Acceptable(d, ret.req))

\* CheckRequest has rejected a request whose expression is true over its
\* identities and over the verified ones alone, because the signature of
\* another identity does not verify
C12_Witness ==
    /\ HasRequest
    /\ ret.msg = "CheckRequest" /\ ret.status = "error"
    /\ IDEqual(GetID(d), ret.req.ID)
    /\ Contains(d.Rules, ret.req.Action)
    /\ DefaultParser(Lookup(d.Rules, ret.req.Action),
                     GetIdentityStrings(ret.req)) = "true"
    /\ PairVerifies(ret.req, 1)
    /\ DefaultParser(Lookup(d.Rules, ret.req.Action),
                     <<IdentityString(ret.req.Identities[1])>>) = "true"
    /\ Len(ret.req.Identities) = 2
    /\ ~PairVerifies(ret.req, 2)

\* C13 as stated - Request hashing: the hash of a request does not change
\* with its identities and signatures, and any request that differs from it
\* in ID, action or message has a different hash.
C13_RequestHashing ==
    HasRequest =>
        /\ \A k \in Keys :
              /\ Hash([ret.req EXCEPT !.Identities =
                          Append(@, NewIdentityEd25519(k))]) = Hash(ret.req)
              /\ Hash([ret.req EXCEPT !.Signatures = Append(@, <<k>>)])
                     = Hash(ret.req)
              /\ Hash([ret.req EXCEPT !.Identities = <<>>, !.Signatures = <<>>])
                     = Hash(ret.req)
        /\ \A id \in RequestIDChoices, a \in RequestActionChoices,
              msg \in MsgChoices :
              <<id, a, msg>> /= <<ret.req.ID, ret.req.Action, ret.req.Msg>> =>
                  Hash([ret.req EXCEPT !.ID = id, !.Action = a, !.Msg = msg])
                      /= Hash(ret.req)

\* the rule of the darc x for the action a is satisfied by the identities
\* of the signers
Satisfied(x, a, signers) ==
    /\ Contains(x.Rules, a)
    /\ DefaultParser(Lookup(x.Rules, a),
                     [i \in 1..Len(signers) |->
                         IdentityString(SignerIdentity(signers[i]))]) = "true"

\* NewRequest(x.GetID(), a, msg, signers...) returns a request that pairs the
\* identity and a signature of each signer by index, x accepts it, and x
\* rejects it once its message is another one
RoundTrip(x, a, msg, signers) ==
    /\ NewRequest(GetID(x), a, msg, signers).status = "ok"
    /\ Len(NewRequest(GetID(x), a, msg, signers).req.Identities) = Len(signers)
    /\ Len(NewRequest(GetID(x), a, msg, signers).req.Signatures) = Len(signers)
    /\ \A i \in 1..Len(signers) :
          /\ NewRequest(GetID(x), a, msg, signers).req.Identities[i]
                 = SignerIdentity(signers[i])
          /\ PairVerifies(NewRequest(GetID(x), a, msg, signers).req, i)
    /\ CheckRequest(x, NewRequest(GetID(x), a, msg, signers).req).status = "ok"
    /\ \A msg2 \in MsgChoices \ {msg} :
          CheckRequest(x, [NewRequest(GetID(x), a, msg, signers).req
                              EXCEPT !.Msg = msg2]).status = "error"

\* C14 as stated - NewRequest round trip: for every action whose rule is
\* satisfied by the identities of the signers, whatever their kind,
\* NewRequest yields a request the darc accepts, and rejects after a change
\* of the message.
C14_AsStated ==
    d /= Nil =>
        \A a \in RequestActionChoices, msg \in MsgChoices,
           signers \in SignerLists :
            Satisfied(d, a, signers) => RoundTrip(d, a, msg, signers)

\* C14 - NewRequest round trip, amended: for every action whose rule is
\* satisfied by the identities of the signers, all of them signers holding
\* an Ed25519 key pair, NewRequest yields a request with as many identities
\* as signatures as signers, paired by index, that the darc accepts, and
\* rejects after a change of the message.
C14_NewRequestRoundTrip ==
    d /= Nil =>
        \A a \in RequestActionChoices, msg \in MsgChoices,
           signers \in SignerLists :
            (/\ Satisfied(d, a, signers)
             /\ \A i \in 1..Len(signers) : SignerType(signers[i]) = 1)
            => RoundTrip(d, a, msg, signers)

\* CheckRequest has rejected a request that differs in the message alone
\* from the request NewRequest returned for two signers, which the darc
\* accepts
C14_Witness ==
    /\ HasRequest
    /\ ret.msg = "CheckRequest" /\ ret.status = "error"
    /\ Len(ret.made.Identities) = 2
    /\ CheckRequest(d, ret.made).status = "ok"
    /\ ret.req.Msg /= ret.made.Msg
    /\ ret.req = [ret.made EXCEPT !.Msg = ret.req.Msg]

\* ------------------------------------------------------------------------
\* Properties of malformed input (specification Spec)
\* ------------------------------------------------------------------------
\* C18 as stated - Evolve with an empty path returns an error: whatever the
\* darc and the signer, Evolve(<<>>, owner) ends with an error value, and no
\* call of Evolve crashes.
C18_EvolveEmptyPath ==
    /\ d /= Nil => \A o \in SignerChoices : Evolve(d, <<>>, o).ret = "error"
    /\ ret.msg = "Evolve" => ret.status /= "panic"

\* x is not a genesis darc and its signature is missing, its path is empty,
\* the first element of its path is not of version 0, or an element of its
\* path that is not a genesis darc has no signature
Malformed(x) ==
    /\ x.Version /= 0
    /\ \/ x.Signature = Nil
       \/ Len(x.Signature.Path) = 0
       \/ x.Signature.Path[1].Version /= 0
       \/ \E i \in 1..Len(x.Signature.Path) :
             /\ x.Signature.Path[i].Version /= 0
             /\ x.Signature.Path[i].Signature = Nil

\* C19 as stated - Verify is total on malformed chains: for every darc that
\* is malformed, Verify returns an error value: it neither crashes nor
\* accepts.
C19_VerifyTotal ==
    \A x \in Candidates : Malformed(x) => Verify(x).status = "error"

\* ------------------------------------------------------------------------
\* Copy: a client changes a copy of a published darc in place
\* ------------------------------------------------------------------------
\* bytes a client writes into a slice
ByteChoices == {120}

\* since Copy the client has at most written bytes in place: every rule of
\* the copy still holds the slice that Copy took from the original
OnlyWritten == ret = NoRet \/ ret.msg = "write"

\* the outcome of a write
Written == [status |-> "ok", msg |-> "write", index |-> -1]

\* d.Description[i] = b: copyBytes gave the copy a slice of its own
DoWriteDescription(i, b) ==
    /\ d /= Nil /\ orig = Nil /\ OnlyWritten
    /\ i \in 1..Len(d.Description)
    /\ d.Description[i] /= b
    /\ d' = [d EXCEPT !.Description[i] = b]
    /\ ret' = Written
    /\ UNCHANGED <<store, ser, orig, edits>>

\* d.Rules[a][i] = b: Copy assigned the expression slice of the original to
\* the new map, so the byte is written into the array both darcs refer to
DoWriteExpr(a, i, b) ==
    /\ d /= Nil /\ orig = Nil /\ OnlyWritten
    /\ a \in DOMAIN d.Rules
    /\ i \in {1, Len(d.Rules[a])} \ {0}
    /\ d.Rules[a][i] /= b
    /\ d' = [d EXCEPT !.Rules[a][i] = b]
    /\ store' = [store EXCEPT ![ser][Len(store[ser])].Rules[a][i] = b]
    /\ ret' = Written
    /\ UNCHANGED <<ser, orig, edits>>

NextCopy ==
    \/ \E k \in Keys : \E rules \in RulesChoices(<<NewIdentityEd25519(k)>>) :
          DoNewDarc("A", rules, <<100>>)
    \/ DoCopy("A")
    \/ DoDiscard
    \/ \E i \in 1..1, b \in ByteChoices : DoWriteDescription(i, b)
    \/ \E a \in RuleActionChoices, i \in 1..9, b \in ByteChoices :
          DoWriteExpr(a, i, b)
    \/ \E a \in RuleActionChoices, e \in RuleExprChoices : CallAddRule(a, e)
    \/ \E a \in RuleActionChoices, e \in RuleExprChoices : CallUpdateRule(a, e)
    \/ \E a \in RuleActionChoices : CallDeleteRules(a)
    \/ \E e \in RuleExprChoices : CallUpdateEvolution(e)

SpecCopy == Init /\ [][NextCopy]_vars

\* ------------------------------------------------------------------------
\* Properties of Copy (specification SpecCopy)
\* ------------------------------------------------------------------------
\* C20 as stated - Copy yields an independent darc without signature: the
\* darc Copy returns has the version, description, base ID, rules and ID of
\* the original and no signature, and no later change of the rules of the
\* copy, or of the bytes of its rule expressions or its description,
\* changes the original.
C20_CopyIndependent ==
    [][/\ (d = Nil /\ d' /= Nil) =>
              /\ d'.Version = Last(store[ser']).Version
              /\ Bytes(d'.Description) = Bytes(Last(store[ser']).Description)
              /\ Bytes(d'.BaseID) = Bytes(Last(store[ser']).BaseID)
              /\ d'.Rules = Last(store[ser']).Rules
              /\ GetID(d') = GetID(Last(store[ser']))
              /\ d'.Signature = Nil
       /\ (d /= Nil /\ d' /= Nil) => store' = store]_vars

\* ------------------------------------------------------------------------
\* Identities and signatures of a request: a client replaces or adds
\* identities and signatures of a request and has the darc check it
\* ------------------------------------------------------------------------
\* identities of the Darc kind
DarcIdentityChoices == {NewIdentityDarc(sha256(<<9>>))}

\* expressions of user rules: those of RequestExprChoices, a darc identity,
\* or a darc identity and a key joined by |
IdentityExprChoices ==
    RequestExprChoices
    \cup {InitOrExpr(<<IdentityString(id)>>) : id \in DarcIdentityChoices}
    \cup {InitOrExpr(<<IdentityString(id),
                       IdentityString(NewIdentityEd25519(1))>>) :
              id \in DarcIdentityChoices}

\* signatures a client can put into a request: none, or that of a key pair
\* over the hash of the request
SigChoices(r) == {<<>>} \cup {SchnorrSign(k, Hash(r)) : k \in Keys}

\* r.Identities[i] = id
DoSetIdentity(i, id) ==
    /\ ret.msg = "NewRequest" /\ ret.status = "ok"
    /\ i \in 1..Len(ret.req.Identities)
    /\ AlterRequest([ret.req EXCEPT !.Identities[i] = id])

\* r.Signatures = append(r.Signatures, sig)
DoAppendSignature(sig) ==
    /\ ret.msg = "NewRequest" /\ ret.status = "ok"
    /\ Len(ret.req.Signatures) < 3
    /\ AlterRequest([ret.req EXCEPT !.Signatures = Append(@, sig)])

NextIdentities ==
    \/ \E expr \in IdentityExprChoices :
          DoNewDarc("A", RequestRules(expr), <<100>>)
    \/ DoCopy("A")
    \/ DoDiscard
    \/ \E id \in RequestIDChoices, a \in RequestActionChoices,
          msg \in {<<99>>}, signers \in SignerLists :
          DoNewRequest(id, a, msg, signers)
    \/ \E i \in 1..2, id \in DarcIdentityChoices : DoSetIdentity(i, id)
    \/ \E id \in DarcIdentityChoices \cup {NewIdentityEd25519(k) : k \in Keys} :
          DoAppendIdentity(id)
    \/ \E k \in Keys :
          /\ ret.msg = "NewRequest" /\ ret.status = "ok"
          /\ DoAppendSignature(SchnorrSign(k, Hash(ret.req)))
    \/ DoAppendSignature(<<>>)
    \/ DoDropSignature
    \/ DoCheckRequest

SpecIdentities == Init /\ [][NextIdentities]_vars

\* ------------------------------------------------------------------------
\* Properties of the identities of a request (specification SpecIdentities)
\* ------------------------------------------------------------------------
\* the indices of the identities of r that are of the Darc kind
DarcKind(r) == {i \in 1..Len(r.Identities) : IdentityType(r.Identities[i]) = 0}

PathShape(x) ==
    /\ x.Signature /= Nil
    /\ Len(x.Signature.Path) = x.Version
    /\ \A i \in 1..Len(x.Signature.Path) :
          /\ x.Signature.Path[i].Version = i - 1
          /\ IDEqual(GetBaseID(x.Signature.Path[i]), GetBaseID(x))
    /\ IDEqual(GetID(x.Signature.Path[1]), x.BaseID)

\* C22 - Path shape of an accepted darc: whenever Verify accepts a darc of
\* version n >= 1, published or being worked on, its signature path has
\* exactly n elements, the element at index i has version i, every element
\* has the base ID of the darc, and the ID of the first element is the
\* BaseID of the darc.
C22_PathShape ==
    /\ \A x \in Candidates :
          (x.Version >= 1 /\ Verify(x).status = "ok") => PathShape(x)
    /\ (d /= Nil /\ d.Version >= 1 /\ ret = Ok) => PathShape(d)

\* Verify has accepted a darc of version 2, whose path holds the genesis
\* darc and version 1
C22_Witness ==
    /\ d /= Nil /\ ret = Ok
    /\ d.Version = 2
    /\ Len(d.Signature.Path) = 2
    /\ d.Signature.Path[2].Version = 1
    /\ d.Signature.Path[2].Signature /= Nil

\* ------------------------------------------------------------------------
\* Steps of a verification: a client publishes versions signed by any key,
\* evolves a copy over some of them, alters up to MaxFaults fields of it and
\* verifies it
\* ------------------------------------------------------------------------
\* a change of one field of the evolved working darc
Tamper(new) ==
    /\ d /= Nil
    /\ orig /= Nil
    /\ edits < MaxFaults
    /\ new /= d
    /\ d' = new
    /\ edits' = edits + 1
    /\ ret' = NoRet
    /\ UNCHANGED <<store, ser, orig>>

\* d.Version = v
DoTamperVersion(v) ==
    /\ d /= Nil
    /\ Tamper([d EXCEPT !.Version = v])

\* d.BaseID = id
DoTamperBaseID(id) ==
    /\ d /= Nil
    /\ Tamper([d EXCEPT !.BaseID = id])

\* d.Signature.Signature = sig
DoTamperSignature(sig) ==
    /\ d /= Nil
    /\ d.Signature /= Nil
    /\ Tamper([d EXCEPT !.Signature.Signature = sig])

\* d.Signature.Signer = id
DoTamperSigner(id) ==
    /\ d /= Nil
    /\ d.Signature /= Nil
    /\ Tamper([d EXCEPT !.Signature.Signer = id])

\* base IDs a client may write: that of another series, or nil
BaseIDChoices == {sha256(<<9>>), NilBytes}

NextSteps ==
    \/ \E k \in Keys : DoNewDarc("A", InitRules(<<NewIdentityEd25519(k)>>), <<100>>)
    \/ DoCopy("A")
    \/ DoDiscard
    \/ \E path \in PathChoices("A"), k \in Keys :
          DoEvolve(path, NewSignerEd25519(k))
    \/ \E v \in 1..MaxDarcs : DoTamperVersion(v)
    \/ \E id \in BaseIDChoices : DoTamperBaseID(id)
    \/ \E sig \in SignatureChoices : DoTamperSignature(sig)
    \/ \E k \in Keys : DoTamperSigner(NewIdentityEd25519(k))
    \/ DoVerify(Nil)
    \/ NumDarcs < MaxDarcs /\ DoPublish

SpecSteps == Init /\ [][NextSteps]_vars

\* ------------------------------------------------------------------------
\* Properties of the steps of a verification (specification SpecSteps)
\* ------------------------------------------------------------------------
\* x is not a genesis darc, has a signature whose path starts with a darc
\* of version 0, and every later element of the path has a signature
WellFormed(x) ==
    /\ x.Version >= 1
    /\ x.Signature /= Nil
    /\ Len(x.Signature.Path) > 0
    /\ x.Signature.Path[1].Version = 0
    /\ \A i \in 2..Len(x.Signature.Path) : x.Signature.Path[i].Signature /= Nil

\* the four checks of the step from prev to new, each by itself: TRUE for
\* a check that fails
Checks(new, prev) ==
    [baseID |-> new.BaseID = NilBytes
                \/ ~IDEqual(GetBaseID(new), GetBaseID(prev)),
     version |-> new.Version /= prev.Version + 1,
     permission |->
         checkEvolutionPermission(GetEvolutionExpr(prev.Rules), Nil, <<>>,
             <<IdentityString(new.Signature.Signer)>>).status /= "ok",
     signature |->
         SignatureVerify(new.Signature, GetID(new),
                         GetBaseID(prev)).status /= "ok"]

\* the order of the checks of a step between two elements of the path
StepOrder == <<"baseID", "version", "permission", "signature">>

\* the order of the checks of the last step, from the last element of the
\* path to the darc: GetSignerDarc compares the versions first
LastStepOrder == <<"version", "baseID", "permission", "signature">>

\* the first check of c that fails, in the given order
FirstKind(c, order) ==
    IF \A k \in 1..4 : ~c[order[k]] THEN "none"
    ELSE order[CHOOSE k \in 1..4 :
                   c[order[k]] /\ \A j \in 1..(k - 1) : ~c[order[j]]]

\* the first failing check of step i of x: step i <= Len(path) leads to
\* path[i], step Len(path) + 1 leads to x
StepKind(x, i, lastOrder) ==
    IF i <= Len(x.Signature.Path)
    THEN FirstKind(Checks(x.Signature.Path[i], x.Signature.Path[i - 1]),
                   StepOrder)
    ELSE FirstKind(Checks(x, Last(x.Signature.Path)), lastOrder)

\* what the claim expects of the verification of x: the first failing check
\* of the first failing step, with the (0-based) index of the path element
\* the step leads to, -1 for the last step
Expected(x, lastOrder) ==
    LET failing == {i \in 2..(Len(x.Signature.Path) + 1) :
                        StepKind(x, i, lastOrder) /= "none"}
        first == CHOOSE i \in failing : \A j \in failing : i <= j
    IN  IF failing = {} THEN [status |-> "ok", kind |-> "none", index |-> -1]
        ELSE [status |-> "error", kind |-> StepKind(x, first, lastOrder),
              index |-> IF first <= Len(x.Signature.Path) THEN first - 1
                        ELSE -1]

\* the check an error message belongs to
Kind(m) ==
    CASE m \in {"nil base ID", "base IDs are not equal"} -> "baseID"
      [] m \in {"incorrect version",
                "not clean evolution - version mismatch"} -> "version"
      [] m \in {"evaluation failed",
                "expression evaluated to false"} -> "permission"
      [] OTHER -> "signature"

\* what a verification returned
Observed(r) ==
    [status |-> r.status,
     kind |-> IF r.status = "ok" THEN "none" ELSE Kind(r.msg),
     index |-> r.index]

\* the working darc has been verified since it was last changed
Verified == d /= Nil /\ ret.status \in {"ok", "error"} /\ ret.msg /= "Evolve"

C24_CountMismatch ==
    (HasRequest /\ Len(ret.req.Identities) /= Len(ret.req.Signatures)) =>
        /\ CheckRequest(d, ret.req).status = "error"
        /\ ret.msg = "CheckRequest" => ret.status = "error"

\* ------------------------------------------------------------------------
\* Repeated evolution: a client calls Evolve on its working darc again and
\* again, over some of the published versions and with any signer
\* ------------------------------------------------------------------------
\* the outcome of a call of Evolve: how it ended, the path it was given, the
\* darc before the call, and whether the call before it, on the same darc,
\* was an Evolve over the same path
EvolveRet(status, path, before) ==
    [status |-> status, msg |-> "Evolve", index |-> -1, path |-> path,
     before |-> before,
     again |-> ret.msg = "Evolve" /\ ret.path = path]

\* err := d.Evolve(path, prevOwner), on a darc that may have been evolved
\* before
CallEvolve(path, prevOwner) ==
    /\ d /= Nil
    /\ \E r \in {Evolve(d, path, prevOwner)} :
           /\ d' = r.d
           /\ orig' = IF r.ret = "ok" THEN r.d ELSE Nil
           /\ ret' = EvolveRet(r.ret, path, d)
    /\ UNCHANGED <<store, ser, edits>>

NextEvolve ==
    \/ \E k \in Keys : \E rules \in RulesChoices(<<NewIdentityEd25519(k)>>) :
          DoNewDarc("A", rules, <<100>>)
    \/ DoCopy("A")
    \/ DoDiscard
    \/ \E id \in IdentityChoices("A") :
          DoUpdateEvolution(InitOrExpr(<<IdentityString(id)>>))
    \/ \E path \in PathChoices("A"), o \in SignerChoices : CallEvolve(path, o)
    \/ NumDarcs < MaxDarcs /\ DoPublish

SpecEvolve == Init /\ [][NextEvolve]_vars

Garbage == [garbage |-> TRUE]

\* UnmarshalTransaction: the transaction a block carries, or nil when the
\* data does not decode (the callers test the result against nil)
UnmarshalTransaction(data) == IF data = Garbage THEN Nil ELSE data

\* the hash of the block at (1-based) position i of a chain
BlockHash(i) == sha256(<<i>>)

\* db.GetByID and client.GetSingleBlock: the block of that hash, nil when
\* there is none
GetByID(db, id) ==
    IF \E i \in 1..Len(db) : db[i].Hash = id
    THEN db[CHOOSE i \in 1..Len(db) : db[i].Hash = id]
    ELSE Nil

\* client.GetSingleBlockByIndex: the block at index of the chain whose
\* genesis block has the hash genesis, nil (with an error) when there is
\* none
GetSingleBlockByIndex(db, genesis, index) ==
    IF Len(db) > index /\ db[1].Hash = genesis THEN db[index + 1] ELSE Nil

RECURSIVE setVotedFrom(_, _, _, _)
\* one iteration of the loop of setVoted, transaction being what
\* UnmarshalTransaction returned for the block: its fields are read without
\* a test against nil
setVotedBlock(db, block, transaction, user, voted) ==
    IF transaction = Nil THEN [Voted |-> voted, status |-> "panic"]
    ELSE IF transaction.Mix /= Nil \/ transaction.Partial /= Nil
              \/ Len(block.ForwardLink) = 0
         THEN [Voted |-> IF transaction.Ballot /= Nil /\ transaction.User = user
                         THEN block.Hash ELSE voted,
               status |-> "ok"]
    ELSE setVotedFrom(db, GetByID(db, block.ForwardLink[1].To), user,
                      IF transaction.Ballot /= Nil /\ transaction.User = user
                      THEN block.Hash ELSE voted)

\* the loop of setVoted from block on, voted being e.Voted so far
setVotedFrom(db, block, user, voted) ==
    IF block = Nil THEN [Voted |-> voted, status |-> "panic"]
    ELSE setVotedBlock(db, block, UnmarshalTransaction(block.Data), user, voted)

\* Election.setVoted: e.Voted afterwards and how the call ends
setVoted(e, db, user) ==
    IF GetByID(db, e.ID) = Nil THEN [Voted |-> e.Voted, status |-> "error"]
    ELSE setVotedFrom(db, GetByID(db, e.ID), user, e.Voted)

RECURSIVE collectBallots(_, _, _)
\* one iteration of the first loop of Box
collectBlock(db, block, transaction, ballots) ==
    IF Len(block.ForwardLink) <= 0
    THEN [ballots |-> IF transaction /= Nil /\ transaction.Ballot /= Nil
                      THEN Append(ballots, transaction.Ballot) ELSE ballots,
          status |-> "ok"]
    ELSE collectBallots(db, GetByID(db, block.ForwardLink[1].To),
                        IF transaction /= Nil /\ transaction.Ballot /= Nil
                        THEN Append(ballots, transaction.Ballot) ELSE ballots)

\* the first loop of Box from block on: the ballots in chain order
collectBallots(db, block, ballots) ==
    IF block = Nil THEN [ballots |-> ballots, status |-> "panic"]
    ELSE collectBlock(db, block, UnmarshalTransaction(block.Data), ballots)

\* the reversal loops of Box
Reverse(s) == [i \in 1..Len(s) |-> s[Len(s) + 1 - i]]

RECURSIVE uniqueBallots(_, _, _, _)
\* the loop of Box that keeps the first ballot of every user, from the
\* (1-based) index i on
uniqueBallots(ballots, i, mapping, unique) ==
    IF i > Len(ballots) THEN unique
    ELSE IF ballots[i].User \in mapping
         THEN uniqueBallots(ballots, i + 1, mapping, unique)
    ELSE uniqueBallots(ballots, i + 1, mapping \cup {ballots[i].User},
                       Append(unique, ballots[i]))

\* the end of Box, c being the outcome of the first loop, had the ballots
\* not been reversed
boxOfKeepingFirst(c) ==
    IF c.status /= "ok" THEN [box |-> Nil, status |-> c.status]
    ELSE [box |-> [Ballots |-> uniqueBallots(c.ballots, 1, {}, <<>>)],
          status |-> "ok"]

\* the end of Box, c being the outcome of the first loop
boxOf(c) ==
    IF c.status /= "ok" THEN [box |-> Nil, status |-> c.status]
    ELSE [box |-> [Ballots |->
                       Reverse(uniqueBallots(Reverse(c.ballots), 1, {}, <<>>))],
          status |-> "ok"]

\* Election.Box: the box, or nil with an error
Box(e, db) ==
    IF GetSingleBlockByIndex(db, e.ID, 0) = Nil
    THEN [box |-> Nil, status |-> "error"]
    ELSE boxOf(collectBallots(db, GetSingleBlockByIndex(db, e.ID, 0), <<>>))

\* users and ballot contents
Users == 1..2
Alphas == 1..2

\* a transaction
Transaction(ballot, mix, partial, user) ==
    [Ballot |-> ballot, Mix |-> mix, Partial |-> partial, User |-> user]

\* the data of a block that follows the genesis block: a ballot cast by a
\* user, a ballot handed in by another user, a mix, a partial, a
\* transaction with none of them, or data that does not decode
DataChoices ==
    {Transaction([User |-> u, Alpha |-> a], Nil, Nil, u) : u \in Users, a \in Alphas}
    \cup {Transaction([User |-> 1, Alpha |-> 1], Nil, Nil, 2),
          Transaction(Nil, [Node |-> 1], Nil, 0),
          Transaction(Nil, Nil, [Node |-> 1], 0),
          Transaction(Nil, Nil, Nil, 0),
          Garbage}

\* the data of the genesis block, which is empty: a transaction without
\* fields, or nothing that decodes
GenesisChoices == {Transaction(Nil, Nil, Nil, 0), Garbage}

\* values of e.Voted before setVoted: nil, or the hash of no block
VotedChoices == {NilBytes, sha256(<<0>>)}

\* values of e.ID: the hash of the genesis block, or of no block
ElectionIDChoices == {BlockHash(1), sha256(<<0>>)}

\* the state of the election client: the name of the last operation, how
\* it ended, the skipchain, the election, the user setVoted was called for,
\* e.Voted before that call, and the box Box returned
ElectionRet(op, status, chain, e, user, before, box) ==
    [status |-> status, msg |-> op, index |-> -1, chain |-> chain, e |-> e,
     user |-> user, before |-> before, box |-> box]

\* the client holds an election
HasElection == ret.msg \in {"open", "store", "setVoted", "Box"}

\* the election is opened on a skipchain that holds the genesis block
OpenElection(id, voted, data) ==
    /\ ret = NoRet /\ d = Nil /\ store["A"] = <<>>
    /\ ret' = ElectionRet("open", "ok",
                  <<[Hash |-> BlockHash(1), Data |-> data, ForwardLink |-> <<>>]>>,
                  [ID |-> id, Voted |-> voted], 0, voted, Nil)
    /\ UNCHANGED <<store, d, ser, orig, edits>>

\* a block is stored at the end of the skipchain and the block before it
\* gets a forward link to it
StoreBlock(data) ==
    /\ HasElection
    /\ Len(ret.chain) < MaxBlocks
    /\ ret' = [ret EXCEPT
                  !.msg = "store", !.status = "ok",
                  !.chain = Append(
                      [@ EXCEPT ![Len(@)].ForwardLink =
                                    <<[To |-> BlockHash(Len(ret.chain) + 1)]>>],
                      [Hash |-> BlockHash(Len(ret.chain) + 1), Data |-> data,
                       ForwardLink |-> <<>>])]
    /\ UNCHANGED <<store, d, ser, orig, edits>>

\* err := e.setVoted(s, user)
CallSetVoted(user) ==
    /\ HasElection
    /\ \E r \in {setVoted(ret.e, ret.chain, user)} :
          ret' = [ret EXCEPT !.msg = "setVoted", !.status = r.status,
                             !.user = user, !.before = ret.e.Voted,
                             !.e.Voted = r.Voted]
    /\ UNCHANGED <<store, d, ser, orig, edits>>

\* box, err := e.Box()
CallBox ==
    /\ HasElection
    /\ \E r \in {Box(ret.e, ret.chain)} :
          ret' = [ret EXCEPT !.msg = "Box", !.status = r.status, !.box = r.box]
    /\ UNCHANGED <<store, d, ser, orig, edits>>

NextElection ==
    \/ \E id \in ElectionIDChoices, voted \in VotedChoices,
          data \in GenesisChoices : OpenElection(id, voted, data)
    \/ \E data \in DataChoices : StoreBlock(data)
    \/ \E user \in Users : CallSetVoted(user)
    \/ CallBox

SpecElection == Init /\ [][NextElection]_vars

\* ------------------------------------------------------------------------
\* Properties of the election (specification SpecElection)
\* ------------------------------------------------------------------------
\* the positions of the chain whose block holds a ballot
BallotAt(chain) ==
    {i \in 1..Len(chain) :
        /\ chain[i].Data /= Garbage
        /\ chain[i].Data.Ballot /= Nil}

\* the last position of the chain at which a ballot of user u stands, 0
\* when there is none
LastBallot(chain, u) ==
    IF \E i \in BallotAt(chain) : chain[i].Data.Ballot.User = u
    THEN CHOOSE i \in BallotAt(chain) :
             /\ chain[i].Data.Ballot.User = u
             /\ \A j \in BallotAt(chain) :
                   chain[j].Data.Ballot.User = u => j <= i
    ELSE 0

\* b holds, for every user with a ballot in the chain, exactly the last
\* ballot of that user and nothing else, in the order of the chain
LastBallots(chain, b) ==
    /\ \A i \in BallotAt(chain) :
          \E j \in 1..Len(b) : b[j].User = chain[i].Data.Ballot.User
    /\ \A j \in 1..Len(b) :
          /\ LastBallot(chain, b[j].User) /= 0
          /\ b[j] = chain[LastBallot(chain, b[j].User)].Data.Ballot
          /\ \A k \in 1..Len(b) :
                /\ (b[k].User = b[j].User) => k = j
                /\ (j < k) => LastBallot(chain, b[j].User)
                                  < LastBallot(chain, b[k].User)

\* C26 - Election.Box keeps only the last ballot of each user: for every
\* chain of blocks linked forward from the genesis block of the election,
\* Box returns a box that holds exactly one ballot for every user with a
\* ballot in the chain, that ballot is the last one of the user in chain
\* order, and the ballots kept stand in the order of the chain.
C26_BoxLastBallots ==
    (HasElection /\ ret.e.ID = BlockHash(1)) =>
        /\ Box(ret.e, ret.chain).status = "ok"
        /\ LastBallots(ret.chain, Box(ret.e, ret.chain).box.Ballots)
        /\ ret.msg = "Box" =>
               /\ ret.status = "ok"
               /\ LastBallots(ret.chain, ret.box.Ballots)

\* Box has returned two ballots for a chain in which the first user voted,
\* then the second, then the first again with another ballot: the ballot
\* of the second user, then the last one of the first
C26_Witness ==
    /\ ret.msg = "Box" /\ ret.status = "ok"
    /\ Len(ret.chain) = 4
    /\ BallotAt(ret.chain) = {2, 3, 4}
    /\ ret.chain[2].Data.Ballot.User = 1
    /\ ret.chain[3].Data.Ballot.User = 2
    /\ ret.chain[4].Data.Ballot.User = 1
    /\ ret.chain[4].Data.Ballot /= ret.chain[2].Data.Ballot
    /\ ret.box.Ballots = <<ret.chain[3].Data.Ballot, ret.chain[4].Data.Ballot>>

\* the position of the first block of the chain that carries a Mix or a
\* Partial, the last position when there is none
StopAt(chain) ==
    IF \E i \in 1..Len(chain) :
           /\ chain[i].Data /= Garbage
           /\ (chain[i].Data.Mix /= Nil \/ chain[i].Data.Partial /= Nil)
    THEN CHOOSE i \in 1..Len(chain) :
             /\ chain[i].Data /= Garbage
             /\ (chain[i].Data.Mix /= Nil \/ chain[i].Data.Partial /= Nil)
             /\ \A j \in 1..(i - 1) :
                   \/ chain[j].Data = Garbage
                   \/ (chain[j].Data.Mix = Nil /\ chain[j].Data.Partial = Nil)
    ELSE Len(chain)

\* the positions up to StopAt whose block holds a ballot cast by user
CastBy(chain, user) ==
    {i \in BallotAt(chain) : i <= StopAt(chain) /\ chain[i].Data.User = user}

\* the value of Voted the claim expects of setVoted
ExpectedVoted(chain, user, before) ==
    IF CastBy(chain, user) = {} THEN before
    ELSE chain[CHOOSE i \in CastBy(chain, user) :
                   \A j \in CastBy(chain, user) : j <= i].Hash

\* C27 as stated - Election.setVoted returns on every finite chain of
\* blocks linked forward from the genesis block and sets Voted to the hash
\* of the last block that holds a ballot cast by the given user among the
\* blocks up to and including the first one that carries a Mix or a
\* Partial; when the user cast no such ballot, Voted is left unchanged.
C27_SetVoted ==
    (HasElection /\ ret.e.ID = BlockHash(1)) =>
        /\ \A user \in Users :
              /\ setVoted(ret.e, ret.chain, user).status = "ok"
              /\ setVoted(ret.e, ret.chain, user).Voted
                     = ExpectedVoted(ret.chain, user, ret.e.Voted)
        /\ ret.msg = "setVoted" =>
               /\ ret.status = "ok"
               /\ ret.e.Voted = ExpectedVoted(ret.chain, ret.user, ret.before)

====
